---- MODULE Spec2Model ----
(***************************************************************************)
(* A model of myshell: parse_line (parser.c) turns a line into a Pipeline, *)
(* execute_pipeline (exec.c) runs it with the helpers of pipe.c and        *)
(* redir.c.  Processes are modelled by their descriptor tables and by a    *)
(* per-process log of the system calls they made.                          *)
(*                                                                         *)
(* Conventions: C arrays indexed by a command or pipe number (cmds,        *)
(* pipe_fds, pids) are functions over 0..n-1; strings, token arrays and    *)
(* argv are sequences of one-character strings / of strings, and At(s, i)  *)
(* reads C index i.  A NULL char* is the empty sequence (no token is ever  *)
(* empty, push_token drops len <= 0).                                      *)
(***************************************************************************)
EXTENDS Integers, Sequences, FiniteSets, TLC

\* ------------------------------------------------------------------ bounds
MaxCmds == 3
MaxTokens == 7
MaxChildFaults == 1
MaxLineLen == 5

\* ------------------------------------------------------- program constants
STDIN_FILENO == 0
STDOUT_FILENO == 1
STDERR_FILENO == 2
NOT_FOUND_STATUS == 127
REDIR_FAIL_STATUS == 1
SIGNALLED_RESULT == 1

NULL == <<>>
At(s, i) == s[i + 1]

\* --------------------------------------------------- descriptors and tables
\* What a descriptor number refers to: nothing, a stream inherited from the
\* shell, one end of the k-th pipe of this call, or an opened file.
Closed == [kind |-> "closed", id |-> -1, end |-> "", name |-> <<>>]
Inherited(n) == [kind |-> "inherit", id |-> n, end |-> "", name |-> <<>>]
PipeEnd(k, e) == [kind |-> "pipe", id |-> k, end |-> e, name |-> <<>>]
File(nm, e) == [kind |-> "file", id |-> -1, end |-> e, name |-> nm]

\* Size of a descriptor table: large enough for every pipe of the largest
\* pipeline plus one open() in a child.
NFds == 2 * MaxCmds + 2
Fds == 0 .. (NFds - 1)

InitFdTable == [f \in Fds |-> IF f <= STDERR_FILENO THEN Inherited(f) ELSE Closed]
NoFdTable == [f \in Fds |-> Closed]

IsOpen(t, f) == f \in Fds /\ t[f].kind # "closed"
HasFree(t) == \E f \in Fds : t[f].kind = "closed"
LowestFree(t) == CHOOSE f \in Fds : t[f].kind = "closed" /\ \A g \in Fds : g < f => t[g].kind # "closed"

\* One logged system call (or library call) of a process.
Ev(op, a, b, nm, msg, ok, d) == [op |-> op, a |-> a, b |-> b, name |-> nm, msg |-> msg, ok |-> ok, d |-> d]

\* A process state: descriptor table and call log.
Proc(t, l) == [fd |-> t, log |-> l]

\* Call by value: Only({e : x \in {a}}) is e with x bound to the value of a,
\* computed once, as a C local holds the result of the call that set it.
Only(S) == CHOOSE x \in S : TRUE

\* close(2)
sys_close(proc, f) ==
    Only({IF IsOpen(ps.fd, f)
          THEN Proc([ps.fd EXCEPT ![f] = Closed], Append(ps.log, Ev("close", f, -1, <<>>, "", TRUE, ps.fd[f])))
          ELSE Proc(ps.fd, Append(ps.log, Ev("close", f, -1, <<>>, "", FALSE, Closed)))
          : ps \in {proc}})

\* dup2(2); fail is the environment making the call fail
sys_dup2(proc, old, new, fail) ==
    Only({IF fail \/ ~IsOpen(ps.fd, old)
          THEN [ps |-> Proc(ps.fd, Append(ps.log, Ev("dup2", old, new, <<>>, "", FALSE, Closed))), ret |-> -1]
          ELSE [ps |-> Proc([ps.fd EXCEPT ![new] = ps.fd[old]],
                            Append(ps.log, Ev("dup2", old, new, <<>>, "", TRUE, ps.fd[old]))),
                ret |-> new]
          : ps \in {proc}})

\* open(2): returns the lowest free descriptor
sys_open(proc, nm, e, fail) ==
    Only({IF fail \/ ~HasFree(ps.fd)
          THEN [ps |-> Proc(ps.fd, Append(ps.log, Ev("open", -1, -1, nm, e, FALSE, Closed))), ret |-> -1]
          ELSE Only({[ps |-> Proc([ps.fd EXCEPT ![f] = File(nm, e)],
                                  Append(ps.log, Ev("open", f, -1, nm, e, TRUE, File(nm, e)))),
                      ret |-> f]
                     : f \in {LowestFree(ps.fd)}})
          : ps \in {proc}})

\* pipe(2) creating kernel pipe k: the two lowest free descriptors
sys_pipe(proc, k, fail) ==
    Only({IF fail \/ Cardinality({f \in Fds : ps.fd[f].kind = "closed"}) < 2
          THEN [ps |-> Proc(ps.fd, Append(ps.log, Ev("pipe", -1, -1, <<>>, "", FALSE, Closed))),
                ret |-> -1, r |-> -1, w |-> -1]
          ELSE Only({Only({[ps |-> Proc([ps.fd EXCEPT ![r] = PipeEnd(k, "r"), ![w] = PipeEnd(k, "w")],
                                        Append(ps.log, Ev("pipe", r, w, <<>>, "", TRUE, PipeEnd(k, "r")))),
                            ret |-> 0, r |-> r, w |-> w]
                           : w \in {LowestFree([ps.fd EXCEPT ![r] = PipeEnd(k, "r")])}})
                     : r \in {LowestFree(ps.fd)}})
          : ps \in {proc}})

\* malloc(3) in the parent; ok is the environment's answer
sys_malloc(proc, what, ok) ==
    Only({Proc(ps.fd, Append(ps.log, Ev("malloc", -1, -1, <<>>, what, ok, Closed))) : ps \in {proc}})

\* fprintf(stderr, ...) / perror(): the line lands on whatever descriptor 2 is
emit(proc, msg) ==
    Only({Proc(ps.fd, Append(ps.log, Ev("stderr", STDERR_FILENO, -1, <<>>, msg, TRUE, ps.fd[STDERR_FILENO])))
          : ps \in {proc}})

\* ------------------------------------------------------------------ pipe.c
CleanupLoop_None(ps, fdsarr, j, i) == ps

\* create_pipes, the cleanup loop run when pipe() fails at index i
RECURSIVE CleanupLoop(_, _, _, _)
CleanupLoop(ps, fdsarr, j, i) ==
    IF j >= i THEN ps
    ELSE CleanupLoop(sys_close(sys_close(ps, fdsarr[j][0]), fdsarr[j][1]), fdsarr, j + 1, i)

\* create_pipes, the loop from index i on; failAt is the index of the pipe()
\* call the environment fails (failAt = n_pipes: none fails).
RECURSIVE CreateLoop(_, _, _, _, _)
CreateLoop(ps, fdsarr, i, n_pipes, failAt) ==
    IF i >= n_pipes THEN [ps |-> ps, pipe_fds |-> fdsarr, ret |-> 0]
    ELSE Only({IF r.ret < 0
               THEN [ps |-> CleanupLoop(emit(r.ps, "pipe"), arr, 0, i), pipe_fds |-> arr, ret |-> -1]
               ELSE CreateLoop(r.ps, [arr EXCEPT ![i] = [e \in 0..1 |-> IF e = 0 THEN r.r ELSE r.w]],
                               i + 1, n_pipes, failAt)
               : r \in {sys_pipe(ps, i, i = failAt)}, arr \in {fdsarr}})

\* What malloc returns for the pipe array: n_pipes uninitialised pairs.
FreshPipeFds(n_pipes) == [k \in 0 .. (n_pipes - 1) |-> [e \in 0..1 |-> -1]]

create_pipes(ps, n_pipes, fdsarr, failAt) == CreateLoop(ps, fdsarr, 0, n_pipes, failAt)

RECURSIVE CloseLoop(_, _, _, _)
CloseLoop(ps, fdsarr, i, n_pipes) ==
    IF i >= n_pipes THEN ps
    ELSE CloseLoop(sys_close(sys_close(ps, fdsarr[i][0]), fdsarr[i][1]), fdsarr, i + 1, n_pipes)

close_all_pipes_SkipFirst(ps, n_pipes, fdsarr) == CloseLoop(ps, fdsarr, 1, n_pipes)

close_all_pipes(ps, n_pipes, fdsarr) == CloseLoop(ps, fdsarr, 0, n_pipes)

\* connect_pipes_for_child without the final close_all_pipes (line 163)
connect_pipes_for_child_NoClose(ps, cmd_idx, n_cmds, n_pipes, fdsarr, failIn, failOut) ==
    Only({IF cmd_idx < n_cmds - 1
          THEN Only({IF r.ret < 0 THEN emit(r.ps, "dup2: pipe stdout") ELSE r.ps
                     : r \in {sys_dup2(a, fdsarr[cmd_idx][1], STDOUT_FILENO, failOut)}})
          ELSE a
          : a \in {IF cmd_idx > 0
                   THEN Only({IF r.ret < 0 THEN emit(r.ps, "dup2: pipe stdin") ELSE r.ps
                              : r \in {sys_dup2(ps, fdsarr[cmd_idx - 1][0], STDIN_FILENO, failIn)}})
                   ELSE ps}})

\* connect_pipes_for_child without its second block (lines 150-157)
connect_pipes_for_child_NoStdout(ps, cmd_idx, n_cmds, n_pipes, fdsarr, failIn, failOut) ==
    Only({close_all_pipes(a, n_pipes, fdsarr)
          : a \in {IF cmd_idx > 0
                   THEN Only({IF r.ret < 0 THEN emit(r.ps, "dup2: pipe stdin") ELSE r.ps
                              : r \in {sys_dup2(ps, fdsarr[cmd_idx - 1][0], STDIN_FILENO, failIn)}})
                   ELSE ps}})

\* connect_pipes_for_child: failIn / failOut make the respective dup2 fail.
connect_pipes_for_child(ps, cmd_idx, n_cmds, n_pipes, fdsarr, failIn, failOut) ==
    Only({Only({close_all_pipes(b, n_pipes, fdsarr)
                : b \in {IF cmd_idx < n_cmds - 1
                         THEN Only({IF r.ret < 0 THEN emit(r.ps, "dup2: pipe stdout") ELSE r.ps
                                    : r \in {sys_dup2(a, fdsarr[cmd_idx][1], STDOUT_FILENO, failOut)}})
                         ELSE a}})
          : a \in {IF cmd_idx > 0
                   THEN Only({IF r.ret < 0 THEN emit(r.ps, "dup2: pipe stdin") ELSE r.ps
                              : r \in {sys_dup2(ps, fdsarr[cmd_idx - 1][0], STDIN_FILENO, failIn)}})
                   ELSE ps}})

\* ----------------------------------------------------------------- redir.c
\* One redirection block of apply_redirections: open, dup2, close.
\* failOpen / failDup are the environment's answers; msg is what the block
\* prints when open fails ("perror: f" stands for perror(cmd->f)), dupMsg what
\* it hands to perror when dup2 fails.
RedirBlock(ps, file, mode, target, msg, dupMsg, failOpen, failDup) ==
    IF file = NULL THEN [ps |-> ps, ret |-> 0]
    ELSE Only({IF o.ret < 0 THEN [ps |-> emit(o.ps, msg), ret |-> -1]
               ELSE Only({IF d.ret < 0
                          THEN [ps |-> sys_close(emit(d.ps, dupMsg), o.ret), ret |-> -1]
                          ELSE [ps |-> sys_close(d.ps, o.ret), ret |-> 0]
                          : d \in {sys_dup2(o.ps, o.ret, target, failDup)}})
               : o \in {sys_open(ps, file, mode, failOpen)}})

\* the order in which the error block comes first
RedirOrder_ErrFirst == <<"err", "in", "out">>

\* The three blocks of apply_redirections in the order of the source
\* (lines 59, 87, 115).
RedirOrder == <<"in", "out", "err">>
BlockFile(cmd, b) == IF b = "in" THEN cmd.in_file ELSE IF b = "out" THEN cmd.out_file ELSE cmd.err_file
\* The calls of a block the environment can fail:
\* 1 open(in) 2 dup2(in) 3 open(out) 4 dup2(out) 5 open(err) 6 dup2(err).
BlockFailPoints(b) == IF b = "in" THEN {1, 2} ELSE IF b = "out" THEN {3, 4} ELSE {5, 6}
\* One block run with fp the call the environment fails (0: none).
RunBlock(ps, cmd, b, fp) ==
    IF b = "in" THEN RedirBlock(ps, cmd.in_file, "r", STDIN_FILENO, "File not found.", "dup2: stdin redirection", fp = 1, fp = 2)
    ELSE IF b = "out" THEN RedirBlock(ps, cmd.out_file, "w", STDOUT_FILENO, "perror: out_file", "dup2: stdout redirection", fp = 3, fp = 4)
    ELSE RedirBlock(ps, cmd.err_file, "w", STDERR_FILENO, "perror: err_file", "dup2: stderr redirection", fp = 5, fp = 6)

\* Positions in apply_redirections: k in 1..3 stands before the k-th block,
\* RedirEnd before return 0 (line 134).  NextBlock is the first position
\* from k on whose block has a file: the next open() the function makes.
RedirEnd == Len(RedirOrder) + 1
RECURSIVE NextBlock(_, _)
NextBlock(cmd, k) ==
    IF k >= RedirEnd THEN RedirEnd
    ELSE IF BlockFile(cmd, RedirOrder[k]) # NULL THEN k
    ELSE NextBlock(cmd, k + 1)

\* apply_redirections that goes on to the next block when one has failed
apply_redirections_NoEarlyStop(ps, cmd, k, fp) ==
    IF NextBlock(cmd, k) = RedirEnd THEN [ps |-> ps, ret |-> 0, at |-> RedirEnd]
    ELSE Only({Only({[ps |-> r.ps, ret |-> 0, at |-> NextBlock(cmd, b + 1)]
                     : r \in {RunBlock(ps, cmd, RedirOrder[b], fp)}})
               : b \in {NextBlock(cmd, k)}})

\* apply_redirections from position k through the next block that has a
\* file: its open (which may wait, for a FIFO), dup2 and close.  The result
\* is -1 where the function returns -1, and otherwise 0 with the position
\* reached: the next open, or RedirEnd where the function returns 0.  Run
\* from position 1 until ret < 0 or RedirEnd this is the whole function:
\* input, then output, then error, stopping at the first failure.
apply_redirections(ps, cmd, k, fp) ==
    IF NextBlock(cmd, k) = RedirEnd THEN [ps |-> ps, ret |-> 0, at |-> RedirEnd]
    ELSE Only({Only({IF r.ret < 0 THEN [ps |-> r.ps, ret |-> -1, at |-> b]
                     ELSE [ps |-> r.ps, ret |-> 0, at |-> NextBlock(cmd, b + 1)]
                     : r \in {RunBlock(ps, cmd, RedirOrder[b], fp)}})
               : b \in {NextBlock(cmd, k)}})

\* ---------------------------------------------------------------- parser.c
\* Characters are one-character strings; VT and NUL name the two that have
\* no escape.  A C string is the sequence of its characters, read through
\* CharAt, which yields the terminator at its end.
VT == "\\v"
NUL == "\\0"
CharAt(str, k) == IF k < Len(str) THEN str[k + 1] ELSE NUL

\* isspace() in the C locale
isspace(ch) == ch \in {" ", "\t", "\n", VT, "\f", "\r"}

OP_IN == <<"<">>
OP_OUT == <<">">>
OP_ERR == <<"2", ">">>
OP_PIPE == <<"|">>

\* Allocation: na counts the allocation calls made so far (malloc, calloc,
\* realloc, strdup); the call number failAt returns NULL (0: none does).
AllocFails(na, failAt) == na + 1 = failAt

\* push_token on the tokenizer state [tokens, cap, na]
push_token(st, tok, failAt) ==
    IF Len(tok) <= 0 THEN [st |-> st, ret |-> 0]
    ELSE LET grow == Len(st.tokens) >= st.cap
             newcap == IF st.cap = 0 THEN 8 ELSE st.cap * 2
             a == IF grow THEN [st EXCEPT !.na = st.na + 1] ELSE st
         IN IF grow /\ AllocFails(st.na, failAt) THEN [st |-> a, ret |-> -1]
            ELSE LET b == IF grow THEN [a EXCEPT !.cap = newcap] ELSE a
                     c == [b EXCEPT !.na = b.na + 1]
                 IN IF AllocFails(b.na, failAt) THEN [st |-> c, ret |-> -1]
                    ELSE [st |-> [c EXCEPT !.tokens = Append(c.tokens, tok)], ret |-> 0]

\* while (*p && isspace(*p)) p++
RECURSIVE SkipSpace(_, _)
SkipSpace(str, pos) ==
    IF CharAt(str, pos) # NUL /\ isspace(CharAt(str, pos)) THEN SkipSpace(str, pos + 1) ELSE pos

RECURSIVE WordEnd_OnlySpaceStops(_, _)
WordEnd_OnlySpaceStops(str, pos) ==
    IF CharAt(str, pos) # NUL /\ ~isspace(CharAt(str, pos)) THEN WordEnd_OnlySpaceStops(str, pos + 1) ELSE pos

\* a word scan that does not stop at |
RECURSIVE WordEnd_NoPipeStop(_, _)
WordEnd_NoPipeStop(str, pos) ==
    LET ch == CharAt(str, pos)
    IN IF ch # NUL /\ ~isspace(ch) /\ ch # "<" /\ ch # ">"
       THEN IF ch = "2" /\ CharAt(str, pos + 1) = ">" THEN pos ELSE WordEnd_NoPipeStop(str, pos + 1)
       ELSE pos

\* the word-scanning loop of tokenize: the position where the word ends
RECURSIVE WordEnd(_, _)
WordEnd(str, pos) ==
    LET ch == CharAt(str, pos)
    IN IF ch # NUL /\ ~isspace(ch) /\ ch # "<" /\ ch # ">" /\ ch # "|"
       THEN IF ch = "2" /\ CharAt(str, pos + 1) = ">" THEN pos ELSE WordEnd(str, pos + 1)
       ELSE pos

\* the characters str[from .. to-1]
Slice(str, from, to) == SubSeq(str, from + 1, to)

\* an oom: exit that leaves err as tokenize cleared it on entry
TokenizeOom_NoMessage(st) == [ret |-> 1, tokens |-> <<>>, err |-> "", na |-> st.na]
\* the oom: exit of tokenize
TokenizeOom(st) == [ret |-> 1, tokens |-> <<>>, err |-> "Out of memory.", na |-> st.na]

\* the main loop of tokenize from position pos
RECURSIVE TokenizeLoop(_, _, _, _)
TokenizeLoop(str, pos, st, failAt) ==
    LET q == SkipSpace(str, pos)
        ch == CharAt(str, q)
    IN IF CharAt(str, pos) = NUL \/ ch = NUL
       THEN [ret |-> 0, tokens |-> st.tokens, err |-> "", na |-> st.na]
       ELSE IF ch = "2" /\ CharAt(str, q + 1) = ">"
       THEN LET r == push_token(st, Slice(str, q, q + 2), failAt)
            IN IF r.ret # 0 THEN TokenizeOom(r.st) ELSE TokenizeLoop(str, q + 2, r.st, failAt)
       ELSE IF ch = "<" \/ ch = ">" \/ ch = "|"
       THEN LET r == push_token(st, Slice(str, q, q + 1), failAt)
            IN IF r.ret # 0 THEN TokenizeOom(r.st) ELSE TokenizeLoop(str, q + 1, r.st, failAt)
       ELSE LET e == WordEnd(str, q)
                r == push_token(st, Slice(str, q, e), failAt)
            IN IF r.ret # 0 THEN TokenizeOom(r.st) ELSE TokenizeLoop(str, e, r.st, failAt)

tokenize(str, na, failAt) == TokenizeLoop(str, 0, [tokens |-> <<>>, cap |-> 0, na |-> na], failAt)

\* is_op that does not know ">"
is_op_NoOut(t) == t = OP_IN \/ t = OP_ERR \/ t = OP_PIPE
\* is_op that does not know "2>"
is_op_NoErr(t) == t = OP_IN \/ t = OP_OUT \/ t = OP_PIPE
is_op(t) == t = OP_IN \/ t = OP_OUT \/ t = OP_ERR \/ t = OP_PIPE

IsRedirOp(t) == t = OP_IN \/ t = OP_OUT \/ t = OP_ERR

\* build_argv, first loop: the number of argv words in tokens[k .. end-1]
RECURSIVE CountWords(_, _, _)
CountWords(tokens, k, end) ==
    IF k >= end THEN 0
    ELSE IF IsRedirOp(At(tokens, k)) THEN CountWords(tokens, k + 2, end)
    ELSE IF At(tokens, k) = OP_PIPE THEN CountWords(tokens, k + 1, end)
    ELSE 1 + CountWords(tokens, k + 1, end)

\* ---- the allocator, as parse_line and free_pipeline use it for the Pipeline
\* A heap is [na, ptr, ev, failed]: na counts the allocation calls of this
\* parse (those of tokenize included); ptr is the set of non-NULL pointers
\* stored in the Pipeline, [slot, id], where id is the number of the call that
\* returned the block; ev is the trace of the blocks handed out for the
\* Pipeline and of the free() calls on non-NULL pointers; failed says that a
\* call returned NULL.
Slot(c, f, k) == [c |-> c, f |-> f, k |-> k]
CmdsSlot == Slot(-1, "cmds", -1)
NewHeap(na, failed) == [na |-> na, ptr |-> {}, ev |-> <<>>, failed |-> failed]
Ptr(h, slot) == IF \E e \in h.ptr : e.slot = slot THEN (CHOOSE e \in h.ptr : e.slot = slot).id ELSE 0
SetPtr(h, slot, id) ==
    [h EXCEPT !.ptr = {e \in @ : e.slot # slot} \cup (IF id = 0 THEN {} ELSE {[slot |-> slot, id |-> id]})]
\* malloc / calloc / strdup
Alloc(h, kind, failAt) ==
    IF AllocFails(h.na, failAt)
    THEN [h |-> [h EXCEPT !.na = @ + 1, !.failed = TRUE], id |-> 0]
    ELSE [h |-> [h EXCEPT !.na = @ + 1, !.ev = Append(@, [op |-> "alloc", id |-> h.na + 1, kind |-> kind])],
          id |-> h.na + 1]
\* free(ptr); free(NULL) does nothing
Free(h, id) == IF id = 0 THEN h ELSE [h EXCEPT !.ev = Append(@, [op |-> "free", id |-> id, kind |-> ""])]
RECURSIVE FreeEach(_, _, _)
FreeEach(h, ids, k) == IF k > Len(ids) THEN h ELSE FreeEach(Free(h, ids[k]), ids, k + 1)

\* build_argv, second loop: strdup each word; ids are the blocks of argv[0..],
\* arr the block of argv itself
\* the copying loop without the i++ that skips a redirection's file name
RECURSIVE CopyWords_KeepFileName(_, _, _, _, _, _, _, _)
CopyWords_KeepFileName(tokens, k, end, argv, ids, arr, h, failAt) ==
    IF k >= end THEN [ret |-> 0, argv |-> argv, ids |-> ids, arr |-> arr, h |-> h]
    ELSE IF IsRedirOp(At(tokens, k)) \/ At(tokens, k) = OP_PIPE
    THEN CopyWords_KeepFileName(tokens, k + 1, end, argv, ids, arr, h, failAt)
    ELSE LET a == Alloc(h, "argv string", failAt)
         IN IF a.id = 0
            THEN [ret |-> 1, argv |-> NULL, ids |-> <<>>, arr |-> 0, h |-> Free(FreeEach(a.h, ids, 1), arr)]
            ELSE CopyWords_KeepFileName(tokens, k + 1, end, Append(argv, At(tokens, k)), Append(ids, a.id), arr, a.h, failAt)
RECURSIVE CopyWords(_, _, _, _, _, _, _, _)
CopyWords(tokens, k, end, argv, ids, arr, h, failAt) ==
    IF k >= end THEN [ret |-> 0, argv |-> argv, ids |-> ids, arr |-> arr, h |-> h]
    ELSE IF IsRedirOp(At(tokens, k)) THEN CopyWords(tokens, k + 2, end, argv, ids, arr, h, failAt)
    ELSE IF At(tokens, k) = OP_PIPE THEN CopyWords(tokens, k + 1, end, argv, ids, arr, h, failAt)
    ELSE LET a == Alloc(h, "argv string", failAt)
         IN IF a.id = 0
            THEN [ret |-> 1, argv |-> NULL, ids |-> <<>>, arr |-> 0, h |-> Free(FreeEach(a.h, ids, 1), arr)]
            ELSE CopyWords(tokens, k + 1, end, Append(argv, At(tokens, k)), Append(ids, a.id), arr, a.h, failAt)

build_argv(tokens, start, end, h, failAt) ==
    LET a == Alloc(h, "argv array", failAt)
    IN IF a.id = 0 THEN [ret |-> 1, argv |-> NULL, ids |-> <<>>, arr |-> 0, h |-> a.h]
       ELSE CopyWords(tokens, start, end, <<>>, <<>>, a.id, a.h, failAt)

EmptyPipeline == [cmds |-> NULL, n_cmds |-> 0]
ZeroCommand == [argv |-> NULL, in_file |-> NULL, out_file |-> NULL, err_file |-> NULL]

\* free_pipeline without its last two assignments (lines 44-45)
free_pipeline_KeepCmds(pl) == [pl EXCEPT !.n_cmds = IF pl.cmds = NULL THEN 0 ELSE @]
free_pipeline(pl) == IF pl.cmds = NULL THEN [pl EXCEPT !.n_cmds = 0] ELSE EmptyPipeline

\* free_pipeline, what it does to the heap: for (j = 0; argv[j] != NULL; j++)
RECURSIVE FreeArgvStrings(_, _, _)
FreeArgvStrings(h, c, k) ==
    IF Ptr(h, Slot(c, "argv", k)) = 0 THEN h
    ELSE FreeArgvStrings(Free(h, Ptr(h, Slot(c, "argv", k))), c, k + 1)
\* a loop body that forgets free(c->err_file)
FreeCommand_NoErrFile(h, c) ==
    LET h1 == IF Ptr(h, Slot(c, "argv", -1)) # 0
              THEN Free(FreeArgvStrings(h, c, 0), Ptr(h, Slot(c, "argv", -1)))
              ELSE h
        h2 == Free(h1, Ptr(h1, Slot(c, "in_file", -1)))
        h3 == Free(h2, Ptr(h2, Slot(c, "out_file", -1)))
    IN [h3 EXCEPT !.ptr = {e \in @ : e.slot.c # c}]
\* free_pipeline, the body of its loop for command c
FreeCommand(h, c) ==
    LET h1 == IF Ptr(h, Slot(c, "argv", -1)) # 0
              THEN Free(FreeArgvStrings(h, c, 0), Ptr(h, Slot(c, "argv", -1)))
              ELSE h
        h2 == Free(h1, Ptr(h1, Slot(c, "in_file", -1)))
        h3 == Free(h2, Ptr(h2, Slot(c, "out_file", -1)))
        h4 == Free(h3, Ptr(h3, Slot(c, "err_file", -1)))
    IN [h4 EXCEPT !.ptr = {e \in @ : e.slot.c # c}]
RECURSIVE FreeCommands(_, _, _)
FreeCommands(h, c, n) == IF c >= n THEN h ELSE FreeCommands(FreeCommand(h, c), c + 1, n)
FreePipelineHeap(pl, h) ==
    IF pl.cmds = NULL THEN h
    ELSE LET h1 == FreeCommands(h, 0, pl.n_cmds)
         IN SetPtr(Free(h1, Ptr(h1, CmdsSlot)), CmdsSlot, 0)

\* the message for a > that lacks its filename
OutMissingMessage(n, seg_end, ntok) ==
    IF n > 1 /\ seg_end = ntok THEN "Output file not specified after redirection." ELSE "Output file not specified."

\* The Command field a redirection operator sets; SetField_KeepFirst is the
\* assignment that would keep a file already recorded
FieldOf(t) == IF t = OP_IN THEN "in_file" ELSE IF t = OP_OUT THEN "out_file" ELSE "err_file"
SetField_KeepFirst(c, t, v) ==
    IF t = OP_IN THEN [c EXCEPT !.in_file = IF @ = NULL \/ v = NULL THEN v ELSE @]
    ELSE IF t = OP_OUT THEN [c EXCEPT !.out_file = IF @ = NULL \/ v = NULL THEN v ELSE @]
    ELSE [c EXCEPT !.err_file = IF @ = NULL \/ v = NULL THEN v ELSE @]
SetField(c, t, v) ==
    IF t = OP_IN THEN [c EXCEPT !.in_file = v]
    ELSE IF t = OP_OUT THEN [c EXCEPT !.out_file = v]
    ELSE [c EXCEPT !.err_file = v]

\* the redirection loop of one segment, from token k; c is the Command, ci
\* its index
RECURSIVE RedirLoop(_, _, _, _, _, _, _, _)
RedirLoop(tokens, k, seg_end, c, ci, n, h, failAt) ==
    IF k >= seg_end THEN [ok |-> TRUE, err |-> "", c |-> c, h |-> h]
    ELSE LET t == At(tokens, k)
             missing == k + 1 >= seg_end \/ is_op(At(tokens, k + 1))
         IN IF ~IsRedirOp(t) THEN RedirLoop(tokens, k + 1, seg_end, c, ci, n, h, failAt)
            ELSE IF missing
            THEN [ok |-> FALSE,
                  err |-> IF t = OP_IN THEN "Input file not specified."
                          ELSE IF t = OP_OUT THEN OutMissingMessage(n, seg_end, Len(tokens))
                          ELSE "Error output file not specified.",
                  c |-> c, h |-> h]
            ELSE LET slot == Slot(ci, FieldOf(t), -1)
                     a == Alloc(Free(h, Ptr(h, slot)), "filename", failAt)
                 IN IF a.id = 0
                    THEN [ok |-> FALSE, err |-> "Out of memory.",
                          c |-> SetField(c, t, NULL), h |-> SetPtr(a.h, slot, 0)]
                    ELSE RedirLoop(tokens, k + 2, seg_end, SetField(c, t, At(tokens, k + 1)), ci, n,
                                   SetPtr(a.h, slot, a.id), failAt)

\* the fail: exit of parse_line: free_tokens, free_pipeline(out), return 1
ParseFail(msg, out, h) ==
    [rc |-> 1, err |-> msg, out |-> free_pipeline(out), na |-> h.na, heap |-> FreePipelineHeap(out, h)]

\* *argv_out = argv: the Command now points to the array and its strings
RECURSIVE StoreArgv(_, _, _, _)
StoreArgv(h, ci, ids, k) ==
    IF k > Len(ids) THEN h ELSE StoreArgv(SetPtr(h, Slot(ci, "argv", k - 1), ids[k]), ci, ids, k + 1)

\* the test of line 320 with its second half left out
ArgvMissing_NullPointerOnly(arr, argv) == arr = 0
\* c->argv == NULL || c->argv[0] == NULL, arr being the array's block
ArgvMissing(arr, argv) == arr = 0 \/ argv = NULL

\* part B of parse_line: the segment loop from token index k
RECURSIVE SegmentLoop(_, _, _, _, _, _, _)
SegmentLoop(tokens, k, seg_start, cmd_index, out, h, failAt) ==
    LET ntok == Len(tokens)
    IN IF k > ntok THEN [rc |-> 0, err |-> "", out |-> out, na |-> h.na, heap |-> h]
       ELSE IF ~(k = ntok \/ At(tokens, k) = OP_PIPE)
       THEN SegmentLoop(tokens, k + 1, seg_start, cmd_index, out, h, failAt)
       ELSE LET seg_end == k
                r == RedirLoop(tokens, seg_start, seg_end, out.cmds[cmd_index], cmd_index, out.n_cmds, h, failAt)
                o1 == [out EXCEPT !.cmds[cmd_index] = r.c]
            IN IF ~r.ok THEN ParseFail(r.err, o1, r.h)
               ELSE LET b == build_argv(tokens, seg_start, seg_end, r.h, failAt)
                        o2 == [o1 EXCEPT !.cmds[cmd_index].argv = b.argv]
                        h2 == StoreArgv(SetPtr(b.h, Slot(cmd_index, "argv", -1), b.arr), cmd_index, b.ids, 1)
                    IN IF b.ret # 0 THEN ParseFail("Out of memory.", o2, b.h)
                       ELSE IF ArgvMissing(b.arr, b.argv) THEN ParseFail("Command missing after pipe.", o2, h2)
                       ELSE SegmentLoop(tokens, k + 1, k + 1, cmd_index + 1, o2, h2, failAt)

\* the number of | tokens
NumPipes(tokens) == Cardinality({k \in 1 .. Len(tokens) : tokens[k] = OP_PIPE})

\* n_cmds as parse_line counts it
CountCmds(tokens) == 1 + NumPipes(tokens)

\* part A with the adjacency loop run before the two edge checks
PipeSyntaxError_AdjacentFirst(tokens) ==
    IF \E k \in 0 .. (Len(tokens) - 2) : At(tokens, k) = OP_PIPE /\ At(tokens, k + 1) = OP_PIPE
    THEN "Empty command between pipes."
    ELSE IF At(tokens, 0) = OP_PIPE \/ At(tokens, Len(tokens) - 1) = OP_PIPE
    THEN "Command missing after pipe."
    ELSE ""

\* part A with the adjacency loop left out (lines 241-246)
PipeSyntaxError_EdgesOnly(tokens) ==
    IF At(tokens, 0) = OP_PIPE \/ At(tokens, Len(tokens) - 1) = OP_PIPE
    THEN "Command missing after pipe."
    ELSE ""

\* part A without its first two checks (lines 231-239 left out)
PipeSyntaxError_AdjacentOnly(tokens) ==
    IF \E k \in 0 .. (Len(tokens) - 2) : At(tokens, k) = OP_PIPE /\ At(tokens, k + 1) = OP_PIPE
    THEN "Empty command between pipes."
    ELSE ""

\* part A of parse_line: the message of the first pipe placement check that
\* fails, "" when all pass
PipeSyntaxError(tokens) ==
    LET ntok == Len(tokens)
    IN IF At(tokens, 0) = OP_PIPE THEN "Command missing after pipe."
       ELSE IF At(tokens, ntok - 1) = OP_PIPE THEN "Command missing after pipe."
       ELSE IF \E k \in 0 .. (ntok - 2) : At(tokens, k) = OP_PIPE /\ At(tokens, k + 1) = OP_PIPE
       THEN "Empty command between pipes."
       ELSE ""

parse_line(str, failAt) ==
    LET t == tokenize(str, 0, failAt)
        h0 == NewHeap(t.na, t.ret # 0)
    IN IF t.ret # 0 THEN ParseFail(t.err, EmptyPipeline, h0)
       ELSE IF Len(t.tokens) = 0 THEN [rc |-> 1, err |-> "", out |-> EmptyPipeline, na |-> t.na, heap |-> h0]
       ELSE IF PipeSyntaxError(t.tokens) # "" THEN ParseFail(PipeSyntaxError(t.tokens), EmptyPipeline, h0)
       ELSE LET a == Alloc(h0, "cmds array", failAt)
                n == CountCmds(t.tokens)
            IN IF a.id = 0 THEN ParseFail("Out of memory.", EmptyPipeline, a.h)
               ELSE SegmentLoop(t.tokens, 0, 0, 0,
                                [cmds |-> [k \in 0 .. (n - 1) |-> ZeroCommand], n_cmds |-> n],
                                SetPtr(a.h, CmdsSlot, a.id), failAt)

\* ------------------------------------------------------------- wait status
\* The encoding of a wait status (sys/wait.h): exit code in bits 8..15,
\* terminating signal in bits 0..6.
W_EXITCODE(code, sig) == (code % 256) * 256 + sig
WIFEXITED(status) == (status % 128) = 0
WEXITSTATUS(status) == (status \div 256) % 256

\* Exit codes a launched program may choose and signals that may kill it.
ProgExitCodes == {0, 255}
ProgSignals == {13}

\* ------------------------------------------------------------------- state
VARIABLES
    line,        \* the input line handed to parse_line
    tokens,      \* the token array tokenize hands back (NULL before, and on failure)
    heap,        \* the allocator's record of the Pipeline's blocks
    errbuf,      \* parse_line's err buffer
    parse_rc,    \* parse_line's return value (-1: not called)
    p,           \* the Pipeline
    pc,          \* position of the shell (parent) process
    i,           \* execute_pipeline's loop index i
    j,           \* the inner index j of the fork-failure loop
    pipe_fds,    \* the pipe array (NULL when not allocated)
    pids,        \* the pid array
    par,         \* the parent's process state
    last_exit,   \* execute_pipeline's last_exit
    ret,         \* the value execute_pipeline returned
    cpc,         \* each child's position
    cproc,       \* each child's process state
    cstatus,     \* each child's wait status once it has terminated
    faults,      \* dup2 failures injected into children so far
    sigchld_ignored, \* the shell was started with SIGCHLD set to SIG_IGN
    stdin_ended, \* a read on the shell's own stdin meets end-of-stream
    files        \* what each file name of a redirection is: FileKinds

vars == <<line, tokens, heap, errbuf, parse_rc, p, pc, i, j, pipe_fds, pids, par, last_exit, ret, cpc, cproc, cstatus, faults, sigchld_ignored, stdin_ended, files>>

\* What the shell is given by whoever starts it.  The disposition of SIGCHLD
\* is inherited and never changed (no signal() or sigaction() call in the
\* sources).  The shell's stdin is passed on to every child that has neither
\* a pipe nor a file as stdin; whether it has ended decides no step of the
\* shell or of a child up to execvp, only whether a program reading it can
\* be expected to finish.  A name given to < > 2> is a regular file, or a
\* FIFO whose other end nobody opens, so that open() on it does not return
\* (fifo(7)), or a stream a reader never finds the end of (a FIFO whose
\* writer stays silent, /dev/zero).
envVars == <<sigchld_ignored, stdin_ended, files>>
FileKinds == {"regular", "fifo_unopened", "endless"}
FileKind(nm) == IF nm \in DOMAIN files THEN files[nm] ELSE "regular"

parseVars == <<line, tokens, heap, errbuf, parse_rc, p>>
parentVars == <<pc, i, j, pipe_fds, pids, par, last_exit, ret>>

Children == 0 .. (MaxCmds - 1)
n_cmds == p.n_cmds
n_pipes_PerCommand == p.n_cmds

\* n_pipes = n_cmds - 1
n_pipes == p.n_cmds - 1

\* fork() numbers the children; waitpid finds the child by its pid.
ChildPid(c) == c + 1
ChildOfPid(pid) == pid - 1

\* --------------------------------------------------------- input pipelines
Word(ch) == <<ch>>
CommandSet == [argv : {<<Word("a")>>}, in_file : {NULL, Word("i")}, out_file : {NULL, Word("o")}, err_file : {NULL, Word("e")}]
PipelineFiles == {Word("i"), Word("o"), Word("e")}
AllRegular == [nm \in PipelineFiles |-> "regular"]
NRedirs(cmd) == (IF cmd.in_file # NULL THEN 1 ELSE 0) + (IF cmd.out_file # NULL THEN 1 ELSE 0)
                + (IF cmd.err_file # NULL THEN 1 ELSE 0)
RECURSIVE TotalRedirs(_, _)
TotalRedirs(cmds, n) == IF n = 0 THEN 0 ELSE NRedirs(cmds[n - 1]) + TotalRedirs(cmds, n - 1)
\* The number of tokens of the shortest line that parses to the pipeline:
\* one word per command, one | between neighbours, two per redirection.
TokenCount(cmds, n) == n + (n - 1) + 2 * TotalRedirs(cmds, n)
Pipelines == UNION {{[cmds |-> f, n_cmds |-> n] : f \in {g \in [0 .. (n - 1) -> CommandSet] : TokenCount(g, n) <= MaxTokens}}
                    : n \in 1 .. MaxCmds}
ExecInit ==
    /\ i = 0 /\ j = 0
    /\ pipe_fds = NULL
    /\ pids = NULL
    /\ par = Proc(InitFdTable, <<>>)
    /\ last_exit = 0
    /\ ret = 0
    /\ cpc = [c \in Children |-> "unborn"]
    /\ cproc = [c \in Children |-> Proc(NoFdTable, <<>>)]
    /\ cstatus = [c \in Children |-> 0]
    /\ faults = 0

\* The pipelines run with SIGCHLD ignored as well: single commands with any
\* redirections, and pipelines without redirections.
IgnoredPipelines == {pl \in Pipelines : pl.n_cmds = 1 \/ TotalRedirs(pl.cmds, pl.n_cmds) = 0}

\* execute_pipeline is entered with a Pipeline parse_line can produce.
Init ==
    /\ line = <<>> /\ tokens = NULL /\ heap = NewHeap(0, FALSE) /\ errbuf = "" /\ parse_rc = 0
    /\ p \in Pipelines
    /\ pc = "entry"
    /\ sigchld_ignored \in BOOLEAN /\ (sigchld_ignored => p \in IgnoredPipelines)
    /\ stdin_ended = FALSE /\ files = AllRegular
    /\ ExecInit

\* ------------------------------------------------- execute_pipeline, parent
Return(v) == pc' = "returned" /\ ret' = v

ExecEntry ==
    /\ pc = "entry"
    /\ IF p.n_cmds = 0
       THEN Return(0)
       ELSE pc' = (IF n_pipes > 0 THEN "malloc_pipe_fds" ELSE "malloc_pids") /\ ret' = ret
    /\ UNCHANGED <<envVars, parseVars, i, j, pipe_fds, pids, par, last_exit, cpc, cproc, cstatus, faults>>

MallocPipeFds ==
    /\ pc = "malloc_pipe_fds"
    /\ \E ok \in BOOLEAN :
         IF ok
         THEN /\ pipe_fds' = FreshPipeFds(n_pipes)
              /\ par' = sys_malloc(par, "pipe_fds", TRUE)
              /\ pc' = "create_pipes" /\ ret' = ret
         ELSE /\ par' = emit(sys_malloc(par, "pipe_fds", FALSE), "malloc (pipe_fds)")
              /\ Return(-1)
              /\ UNCHANGED pipe_fds
    /\ UNCHANGED <<envVars, parseVars, i, j, pids, last_exit, cpc, cproc, cstatus, faults>>

CreatePipes ==
    /\ pc = "create_pipes"
    /\ \E failAt \in 0 .. n_pipes :
         \E r \in {create_pipes(par, n_pipes, pipe_fds, failAt)} :
            /\ par' = r.ps
            /\ pipe_fds' = r.pipe_fds
            /\ IF r.ret < 0 THEN Return(-1) ELSE pc' = "malloc_pids" /\ ret' = ret
    /\ UNCHANGED <<envVars, parseVars, i, j, pids, last_exit, cpc, cproc, cstatus, faults>>

\* a pid-array failure path that returns without close_all_pipes
MallocPids_NoClose ==
    /\ pc = "malloc_pids"
    /\ \E ok \in BOOLEAN :
         IF ok
         THEN /\ pids' = [k \in 0 .. (n_cmds - 1) |-> -1]
              /\ par' = sys_malloc(par, "pids", TRUE)
              /\ pc' = "fork" /\ i' = 0
              /\ ret' = ret
         ELSE /\ par' = emit(sys_malloc(par, "pids", FALSE), "malloc (pids)")
              /\ Return(-1)
              /\ UNCHANGED <<pids, i>>
    /\ UNCHANGED <<envVars, parseVars, j, pipe_fds, last_exit, cpc, cproc, cstatus, faults>>

\* Allocation of the pid array (exec.c 118-123)
MallocPids ==
    /\ pc = "malloc_pids"
    /\ \E ok \in BOOLEAN :
         IF ok
         THEN /\ pids' = [k \in 0 .. (n_cmds - 1) |-> -1]
              /\ par' = sys_malloc(par, "pids", TRUE)
              /\ pc' = "fork" /\ i' = 0
              /\ ret' = ret
         ELSE /\ par' = (LET e == emit(sys_malloc(par, "pids", FALSE), "malloc (pids)")
                         IN IF pipe_fds # NULL THEN close_all_pipes(e, n_pipes, pipe_fds) ELSE e)
              /\ Return(-1)
              /\ UNCHANGED <<pids, i>>
    /\ UNCHANGED <<envVars, parseVars, j, pipe_fds, last_exit, cpc, cproc, cstatus, faults>>

ChildSequence_RedirFirst == <<"redir", "wire", "exec">>

\* The order of the three calls a child makes between fork and exit
ChildSequence == <<"wire", "redir", "exec">>
StageAfter(stage) == LET k == CHOOSE q \in 1 .. Len(ChildSequence) : ChildSequence[q] = stage
                     IN IF k < Len(ChildSequence) THEN ChildSequence[k + 1] ELSE "exec"

\* a parent that closes pipe i-1 as soon as child i is forked
Fork_CloseBehind ==
    /\ pc = "fork" /\ i < n_cmds
    /\ cpc' = [cpc EXCEPT ![i] = ChildSequence[1]]
    /\ cproc' = [cproc EXCEPT ![i] = Proc(par.fd, <<>>)]
    /\ pids' = [pids EXCEPT ![i] = ChildPid(i)]
    /\ \E f \in {Proc(par.fd, Append(par.log, Ev("fork", i, ChildPid(i), <<>>, "", TRUE, Closed)))} :
          par' = (IF i > 0 THEN sys_close(sys_close(f, pipe_fds[i - 1][0]), pipe_fds[i - 1][1]) ELSE f)
    /\ i' = i + 1
    /\ pc' = (IF i + 1 < n_cmds THEN "fork" ELSE "close_pipes")
    /\ UNCHANGED <<envVars, parseVars, j, pipe_fds, last_exit, ret, cstatus, faults>>

\* fork() succeeded: the child starts with a copy of the parent's table.
Fork ==
    /\ pc = "fork" /\ i < n_cmds
    /\ cpc' = [cpc EXCEPT ![i] = ChildSequence[1]]
    /\ cproc' = [cproc EXCEPT ![i] = Proc(par.fd, <<>>)]
    /\ pids' = [pids EXCEPT ![i] = ChildPid(i)]
    /\ par' = Proc(par.fd, Append(par.log, Ev("fork", i, ChildPid(i), <<>>, "", TRUE, Closed)))
    /\ i' = i + 1
    /\ pc' = (IF i + 1 < n_cmds THEN "fork" ELSE "close_pipes")
    /\ UNCHANGED <<envVars, parseVars, j, pipe_fds, last_exit, ret, cstatus, faults>>

ForkFails_NoReap ==
    /\ pc = "fork" /\ i < n_cmds
    /\ LET f == Proc(par.fd, Append(par.log, Ev("fork", i, -1, <<>>, "", FALSE, Closed)))
           e == emit(f, "fork")
       IN par' = (IF pipe_fds # NULL THEN close_all_pipes(e, n_pipes, pipe_fds) ELSE e)
    /\ j' = 0
    /\ Return(-1)
    /\ UNCHANGED <<envVars, parseVars, i, pipe_fds, pids, last_exit, cpc, cproc, cstatus, faults>>

\* fork() failed at index i
ForkFails ==
    /\ pc = "fork" /\ i < n_cmds
    /\ LET f == Proc(par.fd, Append(par.log, Ev("fork", i, -1, <<>>, "", FALSE, Closed)))
           e == emit(f, "fork")
       IN par' = (IF pipe_fds # NULL THEN close_all_pipes(e, n_pipes, pipe_fds) ELSE e)
    /\ j' = 0
    /\ IF 0 < i THEN pc' = "fork_failed" /\ ret' = ret ELSE Return(-1)
    /\ UNCHANGED <<envVars, parseVars, i, pipe_fds, pids, last_exit, cpc, cproc, cstatus, faults>>

\* waitpid(pid, ...) blocks until the child has terminated.  With SIGCHLD
\* ignored the kernel reaps the child itself and the call then fails with
\* ECHILD, leaving *status unwritten.
WaitpidOk == ~sigchld_ignored
\* What the uninitialised local "int status" of the waiting loop may hold
\* when waitpid has not written it: any int (what an earlier call left in
\* the stack slot).  Lines 234-238 read its bits 0-6 and 8-15 only: with
\* bits 0-6 clear the result is bits 8-15, any of 0..255, and otherwise 1,
\* so these values stand for every int.
UninitExitCodes == 0 .. 255
UninitStatuses == {W_EXITCODE(e, 0) : e \in UninitExitCodes} \cup {13}
\* the value of status that line 234 reads after waitpid on child c
StatusRead(c) == IF WaitpidOk THEN {cstatus[c]} ELSE UninitStatuses

\* waitpid(pids[j], NULL, 0) in the fork-failure loop: blocks until child j
\* has terminated
ForkFailedWait ==
    /\ pc = "fork_failed" /\ j < i
    /\ LET c == ChildOfPid(pids[j])
       IN /\ cpc[c] = "zombie"
          /\ cpc' = [cpc EXCEPT ![c] = "reaped"]
          /\ par' = Proc(par.fd, Append(par.log, Ev("waitpid", j, pids[j], <<>>, "", WaitpidOk, Closed)))
    /\ j' = j + 1
    /\ IF j + 1 < i THEN pc' = pc /\ ret' = ret ELSE Return(-1)
    /\ UNCHANGED <<envVars, parseVars, i, pipe_fds, pids, last_exit, cproc, cstatus, faults>>

WaitStart_LastOnly == p.n_cmds - 1

\* The index the waiting loop starts from
WaitStart == 0

ClosePipes_KeepOpen ==
    /\ pc = "close_pipes"
    /\ pc' = "wait" /\ i' = WaitStart /\ last_exit' = 0
    /\ UNCHANGED <<envVars, parseVars, j, pipe_fds, pids, par, ret, cpc, cproc, cstatus, faults>>

\* Step 3: the parent closes all pipe ends
ClosePipes ==
    /\ pc = "close_pipes"
    /\ par' = (IF pipe_fds # NULL THEN close_all_pipes(par, n_pipes, pipe_fds) ELSE par)
    /\ pc' = "wait" /\ i' = WaitStart /\ last_exit' = 0
    /\ UNCHANGED <<envVars, parseVars, j, pipe_fds, pids, ret, cpc, cproc, cstatus, faults>>

LastExit_SignalNegative(status) == IF WIFEXITED(status) THEN WEXITSTATUS(status) ELSE -1

\* The status execute_pipeline derives from the last child's wait status
LastExit(status) == IF WIFEXITED(status) THEN WEXITSTATUS(status) ELSE SIGNALLED_RESULT

CapturedIndex_First == WaitStart

\* The index whose status is captured
CapturedIndex == n_cmds - 1

\* a waiting loop that gives up with -1 when a child did not exit normally
Wait_AbnormalChildFails ==
    /\ pc = "wait" /\ i < n_cmds
    /\ \E c \in {ChildOfPid(pids[i])} :
         /\ cpc[c] = "zombie"
         /\ cpc' = [cpc EXCEPT ![c] = "reaped"]
         /\ par' = Proc(par.fd, Append(par.log, Ev("waitpid", i, pids[i], <<>>, "", WaitpidOk, Closed)))
         /\ \E status \in StatusRead(c) :
              \E le \in {IF i = CapturedIndex THEN LastExit(status) ELSE last_exit} :
                 /\ last_exit' = le
                 /\ IF ~WIFEXITED(cstatus[c]) THEN Return(-1)
                    ELSE IF i + 1 < n_cmds THEN pc' = pc /\ ret' = ret ELSE Return(le)
    /\ i' = i + 1
    /\ UNCHANGED <<envVars, parseVars, j, pipe_fds, pids, cproc, cstatus, faults>>

\* Step 4: waitpid(pids[i], &status, 0) blocks until child i has terminated;
\* its return value is not checked, and for the last child status is read
\* whether or not waitpid wrote it (lines 231-241)
Wait ==
    /\ pc = "wait" /\ i < n_cmds
    /\ \E c \in {ChildOfPid(pids[i])} :
         /\ cpc[c] = "zombie"
         /\ cpc' = [cpc EXCEPT ![c] = "reaped"]
         /\ par' = Proc(par.fd, Append(par.log, Ev("waitpid", i, pids[i], <<>>, "", WaitpidOk, Closed)))
         /\ \E status \in StatusRead(c) :
              \E le \in {IF i = CapturedIndex THEN LastExit(status) ELSE last_exit} :
                 /\ last_exit' = le
                 /\ IF i + 1 < n_cmds THEN pc' = pc /\ ret' = ret ELSE Return(le)
    /\ i' = i + 1
    /\ UNCHANGED <<envVars, parseVars, j, pipe_fds, pids, cproc, cstatus, faults>>

\* ------------------------------------------------ execute_pipeline, child i
\* exit(code): the process becomes a zombie and all its descriptors close.
ChildExits(c, ps, status) ==
    /\ cpc' = [cpc EXCEPT ![c] = "zombie"]
    /\ cproc' = [cproc EXCEPT ![c] = Proc(NoFdTable, Append(ps.log, Ev("exit", status, -1, <<>>, "", TRUE, Closed)))]
    /\ cstatus' = [cstatus EXCEPT ![c] = status]

Cost(b) == IF b THEN 1 ELSE 0

\* a child that shares the parent's descriptors above 2 instead of owning
\* a copy: its wiring sees what the parent holds at that moment
Wire_SharedTable(c) ==
    /\ cpc[c] = "wire"
    /\ IF n_pipes > 0
       THEN \E failIn \in {FALSE} \cup {c > 0}, failOut \in {FALSE} \cup {c < n_cmds - 1} :
              /\ faults + Cost(failIn) + Cost(failOut) <= MaxChildFaults
              /\ faults' = faults + Cost(failIn) + Cost(failOut)
              /\ \E shared \in {Proc([f \in Fds |-> IF f <= STDERR_FILENO THEN cproc[c].fd[f] ELSE par.fd[f]], cproc[c].log)} :
                    cproc' = [cproc EXCEPT ![c] = connect_pipes_for_child(shared, c, n_cmds, n_pipes, pipe_fds, failIn, failOut)]
       ELSE UNCHANGED <<cproc, faults>>
    /\ cpc' = [cpc EXCEPT ![c] = StageAfter("wire")]
    /\ UNCHANGED <<envVars, parseVars, parentVars, cstatus>>

\* (a) pipe wiring
Wire(c) ==
    /\ cpc[c] = "wire"
    /\ IF n_pipes > 0
       THEN \E failIn \in {FALSE} \cup {c > 0}, failOut \in {FALSE} \cup {c < n_cmds - 1} :
              /\ faults + Cost(failIn) + Cost(failOut) <= MaxChildFaults
              /\ faults' = faults + Cost(failIn) + Cost(failOut)
              /\ cproc' = [cproc EXCEPT ![c] = connect_pipes_for_child(cproc[c], c, n_cmds, n_pipes, pipe_fds, failIn, failOut)]
       ELSE UNCHANGED <<cproc, faults>>
    /\ cpc' = [cpc EXCEPT ![c] = StageAfter("wire")]
    /\ UNCHANGED <<envVars, parseVars, parentVars, cstatus>>

\* A child inside apply_redirections stands before one of its three blocks.
RedirStages == <<"redir", "redir_out", "redir_err">>
InRedir(c) == \E k \in DOMAIN RedirStages : cpc[c] = RedirStages[k]
RedirPos(stage) == CHOOSE k \in DOMAIN RedirStages : RedirStages[k] = stage
\* open() of the file the child opens next returns: it waits for as long as
\* the name is a FIFO whose other end nobody has open
OpenReturns(c) ==
    \A k \in {NextBlock(p.cmds[c], RedirPos(cpc[c]))} :
        k < RedirEnd => FileKind(BlockFile(p.cmds[c], RedirOrder[k])) # "fifo_unopened"
\* The calls the environment can fail in the block the child runs next
FailPoints(cmd, k) ==
    {0} \cup (IF NextBlock(cmd, k) < RedirEnd THEN BlockFailPoints(RedirOrder[NextBlock(cmd, k)]) ELSE {})

\* (b) explicit redirections, one step for each file: the open, dup2 and
\* close of its block; on failure exit(1).  Between two steps the other
\* processes run and see what the blocks done so far have changed.  A
\* command without redirections passes in one step.
Redirect(c) ==
    /\ InRedir(c)
    /\ OpenReturns(c)
    /\ \E fp \in FailPoints(p.cmds[c], RedirPos(cpc[c])) :
         \E isDup \in {fp \in {2, 4, 6}}, r \in {apply_redirections(cproc[c], p.cmds[c], RedirPos(cpc[c]), fp)} :
            /\ faults + Cost(isDup) <= MaxChildFaults
            /\ faults' = faults + Cost(isDup)
            /\ IF r.ret < 0
               THEN ChildExits(c, r.ps, W_EXITCODE(REDIR_FAIL_STATUS, 0))
               ELSE /\ cpc' = [cpc EXCEPT ![c] = IF r.at = RedirEnd THEN StageAfter("redir") ELSE RedirStages[r.at]]
                    /\ cproc' = [cproc EXCEPT ![c] = r.ps]
                    /\ UNCHANGED cstatus
    /\ UNCHANGED <<envVars, parseVars, parentVars>>

NotFoundMessage_Single(n) == "Command not found."

\* The diagnostic printed when execvp returns
NotFoundMessage(n) == IF n = 1 THEN "Command not found." ELSE "Command not found in pipe sequence."

\* (c) execvp: either the program starts, or execvp returns and the child
\* prints the diagnostic and exits 127
Exec(c) ==
    /\ cpc[c] = "exec"
    /\ \E found \in BOOLEAN :
         LET called == Proc(cproc[c].fd, Append(cproc[c].log, Ev("execvp", -1, -1, At(p.cmds[c].argv, 0), "", found, Closed)))
         IN IF found
            THEN /\ cpc' = [cpc EXCEPT ![c] = "running"]
                 /\ cproc' = [cproc EXCEPT ![c] = called]
                 /\ UNCHANGED cstatus
            ELSE ChildExits(c, emit(called, NotFoundMessage(n_cmds)), W_EXITCODE(NOT_FOUND_STATUS, 0))
    /\ UNCHANGED <<envVars, parseVars, parentVars, faults>>

\* The launched program exits
ProgExit(c) ==
    /\ cpc[c] = "running"
    /\ \E code \in ProgExitCodes : ChildExits(c, cproc[c], W_EXITCODE(code, 0))
    /\ UNCHANGED <<envVars, parseVars, parentVars, faults>>

\* The launched program is killed by a signal
ProgKilled(c) ==
    /\ cpc[c] = "running"
    /\ \E sig \in ProgSignals : ChildExits(c, cproc[c], W_EXITCODE(0, sig))
    /\ UNCHANGED <<envVars, parseVars, parentVars, faults>>

ChildStep(c) == Wire(c) \/ Redirect(c) \/ Exec(c) \/ ProgExit(c) \/ ProgKilled(c)

Next ==
    \/ ExecEntry
    \/ MallocPipeFds
    \/ CreatePipes
    \/ MallocPids
    \/ Fork
    \/ ForkFails
    \/ ForkFailedWait
    \/ ClosePipes
    \/ Wait
    \/ \E c \in Children : Wire(c)
    \/ \E c \in Children : Redirect(c)
    \/ \E c \in Children : Exec(c)
    \/ \E c \in Children : ProgExit(c)
    \/ \E c \in Children : ProgKilled(c)

Spec == Init /\ [][Next]_vars


\* ------------------------------------------------------------------ main.c
\* main's own blank-line test
only_ws(str) == \A k \in 1 .. Len(str) : str[k] \in {" ", "\t", "\r", "\n"}

EXIT_WORD == <<"e", "x", "i", "t">>

\* One iteration of main's loop up to the call of execute_pipeline: blank
\* lines and exit are filtered, parse_line is called, and on failure the
\* message is printed and the Pipeline released.
MainLine ==
    /\ pc = "main"
    /\ IF only_ws(line) THEN pc' = "prompt" /\ UNCHANGED <<heap, errbuf, parse_rc, p, par>>
       ELSE IF line = EXIT_WORD THEN pc' = "exit" /\ UNCHANGED <<heap, errbuf, parse_rc, p, par>>
       ELSE \E failAt \in 0 .. parse_line(line, 0).na :
              \E r \in {parse_line(line, failAt)} :
                 /\ errbuf' = r.err
                 /\ parse_rc' = r.rc
                 /\ IF r.rc # 0
                    THEN /\ par' = (IF r.err # "" THEN emit(par, r.err) ELSE par)
                         /\ p' = free_pipeline(r.out)
                         /\ heap' = FreePipelineHeap(r.out, r.heap)
                         /\ pc' = "prompt"
                    ELSE /\ p' = r.out
                         /\ heap' = r.heap
                         /\ pc' = "entry"
                         /\ par' = par
    /\ UNCHANGED <<envVars, line, tokens, i, j, pipe_fds, pids, last_exit, ret, cpc, cproc, cstatus, faults>>

\* After execute_pipeline: free_pipeline(&pl) and back to the prompt
MainCleanup ==
    /\ pc = "returned"
    /\ p' = free_pipeline(p)
    /\ heap' = FreePipelineHeap(p, heap)
    /\ pc' = "prompt"
    /\ UNCHANGED <<envVars, line, tokens, errbuf, parse_rc, i, j, pipe_fds, pids, par, last_exit, ret, cpc, cproc, cstatus, faults>>

\* The lines main reads in the whole-program specification
LineAlphabet == {"a", "|", ">", " "}
Lines == UNION {[1 .. n -> LineAlphabet] : n \in 0 .. MaxLineLen}

\* the longest line read with SIGCHLD ignored
MaxIgnoredLineLen == 3
InitLine ==
    /\ line \in Lines
    /\ tokens = NULL /\ heap = NewHeap(0, FALSE) /\ errbuf = "" /\ parse_rc = 0
    /\ p = EmptyPipeline
    /\ pc = "main"
    /\ sigchld_ignored \in BOOLEAN /\ (sigchld_ignored => Len(line) <= MaxIgnoredLineLen)
    /\ stdin_ended = FALSE /\ files = AllRegular
    /\ ExecInit

NextLine == MainLine \/ MainCleanup \/ Next

\* The shell reading one line: main, parse_line, execute_pipeline
SpecLine == InitLine /\ [][NextLine]_vars


\* ------------------------------------------------------ parse_line alone
\* parse_line applied to every line over ParseAlphabet of at most
\* MaxParseLen characters, any one allocation failing or none.
MaxParseLen == 5
ParseAlphabet == {"a", "2", "<", ">", "|", " ", "\f"}
ParseLines == UNION {[1 .. n -> ParseAlphabet] : n \in 0 .. MaxParseLen}

InitParse ==
    /\ line \in ParseLines
    /\ tokens = NULL /\ heap = NewHeap(0, FALSE) /\ errbuf = "" /\ parse_rc = 0
    /\ p = EmptyPipeline
    /\ pc = "parse"
    /\ sigchld_ignored = FALSE /\ stdin_ended = FALSE /\ files = AllRegular
    /\ ExecInit

\* rc = parse_line(line, &pl, errbuf, sizeof(errbuf)); failAt is the
\* allocation the environment fails (0: none).
ParseLine ==
    /\ pc = "parse"
    /\ \E failAt \in 0 .. parse_line(line, 0).na :
         \E r \in {parse_line(line, failAt)} :
            /\ errbuf' = r.err
            /\ parse_rc' = r.rc
            /\ p' = r.out
            /\ heap' = r.heap
    /\ pc' = "parsed"
    /\ UNCHANGED <<envVars, line, tokens, i, j, pipe_fds, pids, par, last_exit, ret, cpc, cproc, cstatus, faults>>

SpecParse == InitParse /\ [][ParseLine]_vars

\* ------------------------------------------------------- tokenizer alone
\* tokenize applied to a line "w1 op w2" written without whitespace, then to
\* the same words and operator written with whitespace around the operator.
MaxWordLen == 2
WordChars == {"a", "2"}
Words == UNION {[1 .. n -> WordChars] : n \in 1 .. MaxWordLen}
Operators == {OP_IN, OP_OUT, OP_ERR, OP_PIPE}
Blanks == {<<" ">>, <<"\t">>}

InitTok ==
    /\ line \in {w1 \o op \o w2 : w1 \in Words, op \in Operators, w2 \in Words}
    /\ tokens = NULL /\ heap = NewHeap(0, FALSE) /\ errbuf = "" /\ parse_rc = 0
    /\ p = EmptyPipeline
    /\ pc = "tokenize"
    /\ sigchld_ignored = FALSE /\ stdin_ended = FALSE /\ files = AllRegular
    /\ ExecInit

\* One call of tokenize(line, &tokens, &ntok, err, err_sz); failAt is the
\* allocation the environment fails (0: none).
Tokenize ==
    /\ pc \in {"tokenize", "tokenize_again"}
    /\ \E failAt \in 0 .. tokenize(line, 0, 0).na :
         \E r \in {tokenize(line, 0, failAt)} :
            /\ tokens' = r.tokens
            /\ errbuf' = r.err
    /\ pc' = (IF pc = "tokenize" THEN "respace" ELSE "done")
    /\ UNCHANGED <<envVars, line, heap, parse_rc, p, i, j, pipe_fds, pids, par, last_exit, ret, cpc, cproc, cstatus, faults>>

\* The user types the same words and operator again, with whitespace around
\* the operator.
Respace ==
    /\ pc = "respace"
    /\ \E w1 \in Words, op \in Operators, w2 \in Words, s1 \in Blanks, s2 \in Blanks :
         /\ line = w1 \o op \o w2
         /\ line' = w1 \o s1 \o op \o s2 \o w2
    /\ pc' = "tokenize_again"
    /\ UNCHANGED <<envVars, tokens, heap, errbuf, parse_rc, p, i, j, pipe_fds, pids, par, last_exit, ret, cpc, cproc, cstatus, faults>>

NextTok == Tokenize \/ Respace

SpecTok == InitTok /\ [][NextTok]_vars

\* ------------------------------------------- parse_line on redirections
\* parse_line applied to lines of one or two commands, the last of which
\* carries up to MaxRedirs redirections "op file" before or after its
\* command word, any one allocation failing or none.
MaxRedirs == 3
FileNames == {<<"a">>, <<"b">>}
Redirection == {<<" ">> \o op \o f : op \in Operators \ {OP_PIPE}, f \in FileNames}
RECURSIVE RedirSeqs(_)
RedirSeqs(n) == IF n = 0 THEN {<<>>} ELSE {r \o rs : r \in Redirection, rs \in RedirSeqs(n - 1)}
RedirLines ==
    {pre \o body : pre \in {<<>>, <<"c", "|">>},
                   body \in UNION {{<<"c">> \o rs, rs \o <<" ", "c">>} : rs \in UNION {RedirSeqs(n) : n \in 0 .. MaxRedirs}}}

InitRedirs ==
    /\ line \in RedirLines
    /\ tokens = NULL /\ heap = NewHeap(0, FALSE) /\ errbuf = "" /\ parse_rc = 0
    /\ p = EmptyPipeline
    /\ pc = "parse"
    /\ sigchld_ignored = FALSE /\ stdin_ended = FALSE /\ files = AllRegular
    /\ ExecInit

SpecRedirs == InitRedirs /\ [][ParseLine]_vars

\* --------------------------------------------- free_pipeline called again
\* parse_line on a line of Lines, any one allocation failing or none,
\* followed by two calls of free_pipeline on the same Pipeline: main's
\* call after a failed or a completed line, and one more.
FreePipeline ==
    /\ pc \in {"parsed", "freed"}
    /\ p' = free_pipeline(p)
    /\ heap' = FreePipelineHeap(p, heap)
    /\ pc' = (IF pc = "parsed" THEN "freed" ELSE "freed_again")
    /\ UNCHANGED <<envVars, line, tokens, errbuf, parse_rc, i, j, pipe_fds, pids, par, last_exit, ret, cpc, cproc, cstatus, faults>>

InitFree ==
    /\ line \in Lines
    /\ tokens = NULL /\ heap = NewHeap(0, FALSE) /\ errbuf = "" /\ parse_rc = 0
    /\ p = EmptyPipeline
    /\ pc = "parse"
    /\ sigchld_ignored = FALSE /\ stdin_ended = FALSE /\ files = AllRegular
    /\ ExecInit

NextFree == ParseLine \/ FreePipeline

SpecFree == InitFree /\ [][NextFree]_vars

\* ------------------------------------------- tokenize, one token at a time
\* The while loop of tokenize run iteration by iteration on every line of
\* ParseLines: i is the offset of p in the line, j the capacity of the
\* token array, heap.na the number of allocation calls made.
InitScan ==
    /\ line \in ParseLines
    /\ tokens = <<>> /\ heap = NewHeap(0, FALSE) /\ errbuf = "" /\ parse_rc = 0
    /\ p = EmptyPipeline
    /\ pc = "scan"
    /\ sigchld_ignored = FALSE /\ stdin_ended = FALSE /\ files = AllRegular
    /\ ExecInit

\* where the token that starts at q ends
TokenEnd(str, q) ==
    IF CharAt(str, q) = "2" /\ CharAt(str, q + 1) = ">" THEN q + 2
    ELSE IF CharAt(str, q) \in {"<", ">", "|"} THEN q + 1
    ELSE WordEnd(str, q)

\* where p stands when push_token is called for the token that starts at q:
\* still at q for an operator (p is advanced after the push, lines 114-123),
\* already at the end of a word (the word scan of 128-135 has moved it)
PAtPush(str, q) ==
    IF CharAt(str, q) = "2" /\ CharAt(str, q + 1) = ">" THEN q
    ELSE IF CharAt(str, q) \in {"<", ">", "|"} THEN q
    ELSE WordEnd(str, q)

\* One iteration of while (*p): skip whitespace, then leave the loop at the
\* end of the line, or push one token, or take the oom: exit when the
\* environment fails an allocation of push_token.
ScanStep ==
    /\ pc = "scan"
    /\ \E q \in {SkipSpace(line, i)} :
         IF CharAt(line, i) = NUL \/ CharAt(line, q) = NUL
         THEN /\ pc' = "scanned" /\ i' = q
              /\ UNCHANGED <<tokens, heap, errbuf, j>>
         ELSE \E e \in {TokenEnd(line, q)}, failAt \in {0, heap.na + 1, heap.na + 2} :
                \E r \in {push_token([tokens |-> tokens, cap |-> j, na |-> heap.na], Slice(line, q, e), failAt)} :
                   IF r.ret # 0
                   THEN /\ tokens' = TokenizeOom(r.st).tokens
                        /\ errbuf' = TokenizeOom(r.st).err
                        /\ heap' = [heap EXCEPT !.na = r.st.na, !.failed = TRUE]
                        /\ pc' = "oom" /\ i' = PAtPush(line, q) /\ j' = r.st.cap
                   ELSE /\ tokens' = r.st.tokens
                        /\ heap' = [heap EXCEPT !.na = r.st.na]
                        /\ pc' = "scan" /\ i' = e /\ j' = r.st.cap
                        /\ UNCHANGED errbuf
    /\ UNCHANGED <<envVars, line, parse_rc, p, pipe_fds, pids, par, last_exit, ret, cpc, cproc, cstatus, faults>>

\* the loop is not suspended for ever: the process keeps running
SpecScan == InitScan /\ [][ScanStep]_vars /\ WF_vars(ScanStep)

\* ---------------------------------------------------------------- liveness
\* Some live process (the parent or a child that has not terminated) holds
\* end e of pipe k.
HasHolder(k, e) ==
    \/ \E f \in Fds : par.fd[f] = PipeEnd(k, e)
    \/ \E c \in Children, f \in Fds : cproc[c].fd[f] = PipeEnd(k, e)

\* A read on the child's stdin is sure to meet end-of-stream: stdin is a
\* regular file, or the read end of a pipe with no writer left, or the stdin
\* inherited from the shell when that has ended.  A terminal where nothing
\* is typed never ends, nor does a FIFO whose writer is silent: the read
\* blocks.
StdinAtEof(c) ==
    LET d == cproc[c].fd[STDIN_FILENO]
    IN \/ d.kind = "file" /\ FileKind(d.name) = "regular"
       \/ d.kind = "pipe" /\ d.end = "r" /\ ~HasHolder(d.id, "w")
       \/ d.kind = "inherit" /\ stdin_ended

\* A write to the child's stdout finds no reader left (EPIPE / SIGPIPE).
StdoutHasNoReader(c) ==
    LET d == cproc[c].fd[STDOUT_FILENO]
    IN d.kind = "pipe" /\ d.end = "w" /\ ~HasHolder(d.id, "r")

\* The launched program ends because its input ended or its reader left.
ProgFinishes(c) == (StdinAtEof(c) \/ StdoutHasNoReader(c)) /\ (ProgExit(c) \/ ProgKilled(c))

ParentNext ==
    \/ ExecEntry \/ MallocPipeFds \/ CreatePipes \/ MallocPids \/ Fork \/ ForkFails
    \/ ForkFailedWait \/ ClosePipes \/ Wait

\* The steps the scheduler and the programs guarantee: the parent takes its
\* next step unless blocked in waitpid, each child runs up to execvp unless
\* blocked in an open() of apply_redirections (Redirect is then disabled), and a
\* launched program terminates once its stdin is at end-of-stream or its
\* stdout has no reader.  No step can be repeated for ever (every step moves
\* a process forward), so fairness on their disjunction is fairness on each.
FairStep ==
    \/ ParentNext
    \/ \E c \in Children : Wire(c) \/ Redirect(c) \/ Exec(c)
    \/ \E c \in Children : ProgFinishes(c)

Fairness == WF_vars(FairStep)

\* The same pipelines with the shell's stdin ended and regular files; and
\* those of fewer than MaxCmds commands or without redirections also with
\* the shell's stdin left open, and with one of the pipeline's file names
\* not a regular file: a FIFO nobody opens at the other end, or, for a <
\* file, a stream without end.  Whether waitpid
\* fails with ECHILD changes neither when it returns nor what any process
\* holds, so the runs are taken with SIGCHLD at its default.
InFiles(pl) == {pl.cmds[c].in_file : c \in 0 .. (pl.n_cmds - 1)} \ {NULL}
UsedFiles(pl) == {BlockFile(pl.cmds[c], b) : c \in 0 .. (pl.n_cmds - 1), b \in {"in", "out", "err"}} \ {NULL}
OtherKinds(pl, nm) == {"fifo_unopened"} \cup (IF nm \in InFiles(pl) THEN {"endless"} ELSE {})
LiveFiles(pl) ==
    {AllRegular} \cup UNION {{[AllRegular EXCEPT ![nm] = k] : k \in OtherKinds(pl, nm)} : nm \in UsedFiles(pl)}
SmallPipelines == {pl \in Pipelines : pl.n_cmds < MaxCmds \/ TotalRedirs(pl.cmds, pl.n_cmds) = 0}
LiveInit ==
    /\ line = <<>> /\ tokens = NULL /\ heap = NewHeap(0, FALSE) /\ errbuf = "" /\ parse_rc = 0
    /\ p \in Pipelines
    /\ pc = "entry"
    /\ sigchld_ignored = FALSE /\ stdin_ended \in BOOLEAN
    /\ files \in LiveFiles(p)
    /\ (~stdin_ended \/ files # AllRegular) => p \in SmallPipelines
    /\ ExecInit

LiveSpec == LiveInit /\ [][Next]_vars /\ Fairness

\* ============================================================== properties
\* Helpers to read process logs and descriptor tables.
Cmd(c) == p.cmds[c]
Forked(c) == cpc[c] # "unborn"
AtExec(c) == cpc[c] \in {"exec", "running"}
WiringEv(e) == e.op \in {"dup2", "close"} /\ e.d.kind = "pipe"
RedirEv(e) == e.op = "open" \/ (e.op \in {"dup2", "close"} /\ e.d.kind = "file")
ExecEv(e) == e.op = "execvp"
HoldsRawPipeEnd(t) == \E f \in Fds : f > STDERR_FILENO /\ t[f].kind = "pipe"
HoldsPipeEnd(t) == \E f \in Fds : t[f].kind = "pipe"
PipeConnected(c, target) ==
    \E k \in DOMAIN cproc[c].log :
        LET e == cproc[c].log[k] IN e.op = "dup2" /\ e.ok /\ e.b = target /\ e.d.kind = "pipe"

\* C1: in every child the wiring calls all precede the redirection calls,
\* which all precede execvp; wiring and redirection are complete when execvp
\* is called; and at that moment a descriptor with an explicit redirection
\* refers to the named file, whether or not a pipe was connected to it.
C1_RedirectionAfterWiring ==
    \A c \in Children :
        LET log == cproc[c].log
        IN /\ \A a, b \in DOMAIN log :
                /\ (RedirEv(log[a]) /\ WiringEv(log[b])) => b < a
                /\ (ExecEv(log[a]) /\ (WiringEv(log[b]) \/ RedirEv(log[b]))) => b < a
           /\ AtExec(c) =>
                /\ ~HoldsRawPipeEnd(cproc[c].fd)
                /\ Cmd(c).in_file # NULL => cproc[c].fd[STDIN_FILENO] = File(Cmd(c).in_file, "r")
                /\ Cmd(c).out_file # NULL => cproc[c].fd[STDOUT_FILENO] = File(Cmd(c).out_file, "w")
                /\ Cmd(c).err_file # NULL => cproc[c].fd[STDERR_FILENO] = File(Cmd(c).err_file, "w")

\* C1 witness: a middle or last command with < whose stdin was first
\* connected to the pipe and then, at exec, refers to the file.
C1_Witness ==
    \E c \in Children :
        /\ c > 0 /\ cpc[c] = "running"
        /\ Cmd(c).in_file # NULL
        /\ PipeConnected(c, STDIN_FILENO)
        /\ cproc[c].fd[STDIN_FILENO].kind = "file"


\* C2: under the scheduler's fairness and with programs that terminate at
\* end-of-stream on stdin or when stdout has lost its reader, once all n >= 2
\* children are forked execute_pipeline eventually returns the last status
\* with every child reaped; and once the writer of a pipe has terminated the
\* pipe eventually has no writer left, so its reader meets end-of-stream.
AllForked == pc = "close_pipes" /\ n_cmds >= 2
ReturnedAllReaped == pc = "returned" /\ ret # -1 /\ \A c \in 0 .. (n_cmds - 1) : cpc[c] = "reaped"
WriterGone(k) == k < n_pipes /\ cpc[k] \in {"zombie", "reaped"}
NoWriterLeft(k) == ~HasHolder(k, "w")
C2_EofPropagation ==
    /\ AllForked ~> ReturnedAllReaped
    /\ \A k \in Children : WriterGone(k) ~> NoWriterLeft(k)

\* C2 as it holds: under the same fairness, when the shell's own stdin
\* (which a command reads when it has neither a pipe nor a file as stdin,
\* as the first command without < does) has ended and every file named by
\* a redirection is a regular file (its open returns, a reader meets its
\* end), once all n >= 2 children are forked execute_pipeline eventually
\* returns the last status with every child reaped; and, in every run, from
\* some point on every pipe whose writer has terminated has no writer left,
\* so its reader meets end-of-stream (a terminated writer stays terminated,
\* hence this is reached after each writer's exit).
StreamsEnd == stdin_ended /\ \A nm \in UsedFiles(p) : FileKind(nm) = "regular"
C2_EofPropagationStreamsEnd ==
    /\ (AllForked /\ StreamsEnd) ~> ReturnedAllReaped
    /\ <>[](\A k \in Children : WriterGone(k) => NoWriterLeft(k))
\* three commands, the first reading the shell's stdin, which has ended:
\* the call has returned with all three reaped
C2_WitnessStreamsEnd ==
    /\ n_cmds = 3 /\ ReturnedAllReaped /\ StreamsEnd
    /\ Cmd(0).in_file = NULL /\ \E x \in DOMAIN cproc[0].log : ExecEv(cproc[0].log[x]) /\ cproc[0].log[x].ok
    /\ PipeConnected(1, STDIN_FILENO) /\ PipeConnected(2, STDIN_FILENO)
\* a program is left reading the shell's stdin, which has not ended, while
\* the parent waits for it
BlockedOnShellStdin ==
    /\ pc = "wait" /\ ~stdin_ended
    /\ \E c \in Children : cpc[c] = "running" /\ cproc[c].fd[STDIN_FILENO] = Inherited(STDIN_FILENO) /\ ~ENABLED ProgFinishes(c)
\* "a | a < i > o" with o a FIFO nobody reads: the second child waits in
\* open(o) with i on its stdin, having given up the read end of the pipe;
\* the first program has terminated and has been reaped
BlockedInOpen ==
    /\ n_cmds = 2 /\ pc = "wait" /\ cpc[0] = "reaped" /\ cpc[1] = "redir_out"
    /\ FileKind(Cmd(1).out_file) = "fifo_unopened" /\ ~ENABLED Redirect(1)
    /\ cproc[1].fd[STDIN_FILENO] = File(Cmd(1).in_file, "r")
    /\ cproc[1].fd[STDOUT_FILENO] = Inherited(STDOUT_FILENO)
    /\ ~HasHolder(0, "r")
\* "a < i" with i a FIFO whose writer is silent: the program reads, the
\* parent waits
BlockedOnEndlessFile ==
    /\ n_cmds = 1 /\ pc = "wait" /\ cpc[0] = "running" /\ stdin_ended
    /\ cproc[0].fd[STDIN_FILENO] = File(Cmd(0).in_file, "r")
    /\ ~StdinAtEof(0) /\ ~ENABLED ProgFinishes(0)
\* between two redirections the other processes see the first one done
\* (regular files): the pipe before the child has lost its reader while the
\* child has yet to open its output file
BetweenRedirections ==
    \E c \in Children :
        /\ c > 0 /\ cpc[c] = "redir_out" /\ files = AllRegular
        /\ cproc[c].fd[STDIN_FILENO].kind = "file" /\ ~HasHolder(c - 1, "r")


\* ------------------------------------------------- reading the parent's log
ParLog == par.log
IsFork(e) == e.op = "fork"
IsOk(e) == e.ok
IsWaitpid(e) == e.op = "waitpid"
IsPipeCall(e) == e.op = "pipe"
ForkSeq == SelectSeq(ParLog, IsFork)
WaitSeq == SelectSeq(ParLog, IsWaitpid)
PipeSeq == SelectSeq(ParLog, IsPipeCall)
ParentCallFailed == \E x \in DOMAIN ParLog : ParLog[x].op \in {"malloc", "pipe", "fork"} /\ ~ParLog[x].ok
ForkFailed == \E x \in DOMAIN ParLog : IsFork(ParLog[x]) /\ ~ParLog[x].ok
PipeFailed == \E x \in DOMAIN ParLog : IsPipeCall(ParLog[x]) /\ ~ParLog[x].ok
\* The parent closed end e of pipe k at position x of its log
ClosedAt(x, k, e) == ParLog[x].op = "close" /\ ParLog[x].ok /\ ParLog[x].d = PipeEnd(k, e)
AllReaped(n) == \A c \in Children : c < n => cpc[c] = "reaped"
NoneBornFrom(n) == \A c \in Children : c >= n => cpc[c] = "unborn"

\* C3: once all n forks have succeeded and the parent is in (or past) its
\* waiting loop, it holds no pipe end, and its log shows a successful close
\* of both ends of each of the n-1 pipes, each after every fork and before
\* every waitpid.
C3_ParentClosesBeforeWait ==
    (pc \in {"wait", "returned"} /\ ~ParentCallFailed /\ Len(ForkSeq) = n_cmds) =>
        /\ ~HoldsPipeEnd(par.fd)
        /\ \A k \in 0 .. (p.n_cmds - 2), e \in {"r", "w"} :
              \E x \in DOMAIN ParLog :
                 /\ ClosedAt(x, k, e)
                 /\ \A y \in DOMAIN ParLog : IsFork(ParLog[y]) => y < x
                 /\ \A y \in DOMAIN ParLog : IsWaitpid(ParLog[y]) => x < y

\* C3 witness: a three-command pipeline, the parent between its first and
\* second waitpid, both pipes having been created.
C3_Witness ==
    /\ pc = "wait" /\ p.n_cmds = 3 /\ i = 1
    /\ Len(PipeSeq) = 2 /\ Len(WaitSeq) = 1
    /\ \E c \in Children : cpc[c] = "running" /\ HoldsPipeEnd(cproc[c].fd)

\* a waitpid of the parent failed (ECHILD)
WaitpidFailed == \E x \in DOMAIN ParLog : IsWaitpid(ParLog[x]) /\ ~ParLog[x].ok

\* C4: when no parent-side call failed (no malloc, pipe or fork, and no
\* waitpid either), the value returned is the exit code of child n-1 if its
\* wait status says it exited, and 1 if the status says a signal killed it,
\* whatever the statuses of children 0..n-2; and all n children are reaped.
C4_LastCommandStatus ==
    (pc = "returned" /\ ~ParentCallFailed /\ ~WaitpidFailed /\ p.n_cmds >= 1) =>
        /\ \A code \in 0 .. 255 : cstatus[p.n_cmds - 1] = code * 256 => ret = code
        /\ \A sig \in 1 .. 127 : cstatus[p.n_cmds - 1] = sig => ret = 1
        /\ \E v \in 0 .. 255 : cstatus[p.n_cmds - 1] \in {v * 256, v}
        /\ AllReaped(p.n_cmds)

\* C4 witness: three commands, the first not found (127), the second killed
\* by a signal, the last exiting 0: the call returned 0.
C4_Witness ==
    /\ pc = "returned" /\ p.n_cmds = 3 /\ ~ParentCallFailed /\ ~WaitpidFailed
    /\ Len(WaitSeq) = 3
    /\ cstatus[0] = 127 * 256 /\ cstatus[1] \in ProgSignals /\ cstatus[2] = 0
    /\ ret = 0

\* C5: as long as no fork has failed, the forks are those of indices 0, 1, ...
\* in that order, never more than n; the waits are for children 0, 1, ... in
\* that order and start only after all n forks; and when the call returns
\* after n forks, there were exactly n forks and n waits and every child is
\* reaped.
C5_ForkAndWaitInOrder ==
    ~ForkFailed =>
        /\ Len(ForkSeq) <= p.n_cmds
        /\ \A k \in DOMAIN ForkSeq : ForkSeq[k].a = k - 1 /\ ForkSeq[k].b = pids[k - 1]
        /\ \A k \in DOMAIN WaitSeq : WaitSeq[k].a = k - 1 /\ WaitSeq[k].b = ForkSeq[k].b
        /\ WaitSeq # <<>> => Len(ForkSeq) = p.n_cmds
        /\ \A x, y \in DOMAIN ParLog : (IsFork(ParLog[x]) /\ IsWaitpid(ParLog[y])) => x < y
        /\ NoneBornFrom(Len(ForkSeq))
        /\ \A c \in Children : c < Len(ForkSeq) => cpc[c] # "unborn"
        /\ (pc = "returned" /\ ~ParentCallFailed /\ p.n_cmds >= 1) =>
              /\ Len(ForkSeq) = p.n_cmds /\ Len(WaitSeq) = p.n_cmds
              /\ AllReaped(p.n_cmds)

\* C5 witness: a three-command pipeline returned after three forks and three
\* waits.
C5_Witness ==
    /\ pc = "returned" /\ p.n_cmds = 3 /\ Len(ForkSeq) = 3 /\ Len(WaitSeq) = 3
    /\ AllReaped(3)

\* C6: whenever execute_pipeline has returned, the value is -1 exactly when a
\* malloc, pipe or fork call of the parent failed, and otherwise it lies in
\* 0..255.
C6_MinusOneIffParentFailure ==
    pc = "returned" =>
        /\ ret = -1 <=> ParentCallFailed
        /\ ret # -1 => ret \in 0 .. 255

\* C6 witness: the last command was killed by a signal and no parent call
\* failed: the call returned 1, not -1.
C6_Witness ==
    /\ pc = "returned" /\ ~ParentCallFailed /\ p.n_cmds >= 2
    /\ cstatus[p.n_cmds - 1] \in ProgSignals
    /\ ret = 1

\* C7: while a successfully parsed line is being executed, the Pipeline has
\* one Command more than the line has `|` characters (every `|` of these
\* lines is a token); never more pipes are created than the line has `|`;
\* once pipe creation is over without failure exactly that many pipes were
\* created, numbered in order; and a line without `|` makes no pipe call.
PipeTokens == Cardinality({k \in DOMAIN line : line[k] = "|"})
Executing == pc \notin {"main", "prompt", "exit"}
PipeSetupFailed ==
    \E x \in DOMAIN ParLog :
        /\ ~ParLog[x].ok
        /\ IsPipeCall(ParLog[x]) \/ (ParLog[x].op = "malloc" /\ ParLog[x].msg = "pipe_fds")
PipesCreated == Cardinality({x \in DOMAIN ParLog : IsPipeCall(ParLog[x]) /\ ParLog[x].ok})
C7_PipeCount ==
    Executing =>
        /\ parse_rc = 0
        /\ p.n_cmds = PipeTokens + 1
        /\ DOMAIN p.cmds = 0 .. PipeTokens
        /\ PipesCreated <= PipeTokens
        /\ \A k \in DOMAIN PipeSeq : PipeSeq[k].ok => PipeSeq[k].d = PipeEnd(k - 1, "r")
        /\ (pc \notin {"entry", "malloc_pipe_fds", "create_pipes"} /\ ~PipeSetupFailed) =>
              PipesCreated = PipeTokens
        /\ PipeTokens = 0 => PipeSeq = <<>>

\* C7 witness: a line with two `|` is being executed, both pipes created and
\* all three children forked.
C7_Witness ==
    /\ PipeTokens = 2 /\ pc = "wait" /\ PipesCreated = 2 /\ p.n_cmds = 3

\* C8: if a pipe() call of create_pipes failed, it was the last pipe call,
\* every pipe created before it has both ends closed afterwards, the parent's
\* descriptor table is what it was at entry, no fork was made, and
\* execute_pipeline has returned -1.
C8_PipeFailureAtomic ==
    PipeFailed =>
        /\ pc = "returned" /\ ret = -1
        /\ ForkSeq = <<>> /\ WaitSeq = <<>> /\ NoneBornFrom(0)
        /\ ~HoldsPipeEnd(par.fd) /\ par.fd = InitFdTable
        /\ \A k \in DOMAIN PipeSeq : PipeSeq[k].ok <=> k < Len(PipeSeq)
        /\ Len(PipeSeq) <= p.n_cmds - 1
        /\ \A x \in DOMAIN ParLog :
              (IsPipeCall(ParLog[x]) /\ ParLog[x].ok) =>
                  \A e \in {"r", "w"} :
                      \E y \in DOMAIN ParLog : x < y /\ ClosedAt(y, ParLog[x].d.id, e)

\* C8 witness: the second pipe() call failed after the first had created a
\* pipe, and the call has returned.
C8_Witness ==
    /\ PipeFailed /\ Len(PipeSeq) = 2 /\ PipeSeq[1].ok
    /\ pc = "returned"

\* C9: if fork failed at index fi, it was the last fork call; after it the
\* parent closed both ends of every pipe, before any waitpid, and holds no
\* pipe end; the only children are 0..fi-1 and they are waited for in that
\* order; and when the call has returned, it returned -1 with every one of
\* them reaped.
FailedForkIndex == (CHOOSE x \in DOMAIN ParLog : IsFork(ParLog[x]) /\ ~ParLog[x].ok)
C9_ForkFailureCleanup ==
    ForkFailed =>
        LET x == FailedForkIndex
            fi == ParLog[x].a
        IN /\ fi \in 0 .. (p.n_cmds - 1)
           /\ Len(ForkSeq) = fi + 1
           /\ \A k \in DOMAIN ForkSeq : ForkSeq[k].a = k - 1 /\ (ForkSeq[k].ok <=> k <= fi)
           /\ ~HoldsPipeEnd(par.fd)
           /\ \A k \in 0 .. (p.n_cmds - 2), e \in {"r", "w"} :
                 \E y \in DOMAIN ParLog :
                    /\ x < y /\ ClosedAt(y, k, e)
                    /\ \A w \in DOMAIN ParLog : IsWaitpid(ParLog[w]) => y < w
           /\ Len(WaitSeq) <= fi
           /\ \A k \in DOMAIN WaitSeq : WaitSeq[k].a = k - 1 /\ WaitSeq[k].b = ForkSeq[k].b
           /\ NoneBornFrom(fi)
           /\ \A c \in Children : (c < fi /\ c >= Len(WaitSeq)) => cpc[c] \notin {"unborn", "reaped"}
           /\ pc \in {"fork_failed", "returned"}
           /\ pc = "returned" => (ret = -1 /\ Len(WaitSeq) = fi /\ AllReaped(fi))

\* C9 witness: in a three-command pipeline with both pipes created the third
\* fork failed, and the call has returned after reaping the two children.
C9_Witness ==
    /\ ForkFailed /\ ParLog[FailedForkIndex].a = 2 /\ PipesCreated = 2
    /\ pc = "returned" /\ Len(WaitSeq) = 2

\* C10: in any child, a returning execvp is followed at once by the
\* diagnostic on stderr -- "Command not found." for a single command,
\* "Command not found in pipe sequence." otherwise -- and by exit(127), so the
\* child's wait status is that of exit code 127; and if the child is the
\* last command, a returned execute_pipeline returned 127.
C10_NotFound ==
    \A c \in Children :
        \A x \in DOMAIN cproc[c].log :
            (cproc[c].log[x].op = "execvp" /\ ~cproc[c].log[x].ok) =>
                /\ Len(cproc[c].log) = x + 2
                /\ cproc[c].log[x + 1].op = "stderr"
                /\ p.n_cmds = 1 => cproc[c].log[x + 1].msg = "Command not found."
                /\ p.n_cmds > 1 => cproc[c].log[x + 1].msg = "Command not found in pipe sequence."
                /\ cproc[c].log[x + 2].op = "exit" /\ cproc[c].log[x + 2].a = 127 * 256
                /\ cpc[c] \in {"zombie", "reaped"} /\ cstatus[c] = 127 * 256
                /\ (c = p.n_cmds - 1 /\ pc = "returned") => ret = 127

\* C10 witness: the last command of a pipeline of two or more was not found,
\* the diagnostic went to its redirected stderr, and the call returned 127.
C10_Witness ==
    /\ pc = "returned" /\ ret = 127 /\ p.n_cmds >= 2
    /\ \E x \in DOMAIN cproc[p.n_cmds - 1].log :
          /\ cproc[p.n_cmds - 1].log[x].op = "stderr"
          /\ cproc[p.n_cmds - 1].log[x].msg = "Command not found in pipe sequence."
          /\ cproc[p.n_cmds - 1].log[x].d.kind = "file"

\* C11: in any child, a failed open of the command's in_file is followed at
\* once by "File not found." on stderr and by exit(1); the child's trace has
\* no execvp; its wait status is that of exit code 1; and if the child is the
\* last command, a returned execute_pipeline returned a non-zero value (1).
InFileOpenFailed(e) == e.op = "open" /\ ~e.ok /\ e.msg = "r"
C11_InputFileNotFound ==
    \A c \in Children :
        \A x \in DOMAIN cproc[c].log :
            InFileOpenFailed(cproc[c].log[x]) =>
                /\ cproc[c].log[x].name = p.cmds[c].in_file
                /\ Len(cproc[c].log) = x + 2
                /\ cproc[c].log[x + 1].op = "stderr" /\ cproc[c].log[x + 1].msg = "File not found."
                /\ cproc[c].log[x + 2].op = "exit" /\ cproc[c].log[x + 2].a = 1 * 256
                /\ \A y \in DOMAIN cproc[c].log : cproc[c].log[y].op # "execvp"
                /\ cpc[c] \in {"zombie", "reaped"} /\ cstatus[c] = 1 * 256
                /\ (c = p.n_cmds - 1 /\ pc = "returned") => (ret # 0 /\ ret = 1)

\* C11 witness: the last command of a two-command pipeline has < on a file
\* that cannot be opened, its stdin having been wired to the pipe first; the
\* call returned 1.
C11_Witness ==
    /\ pc = "returned" /\ ret = 1 /\ p.n_cmds = 2
    /\ PipeConnected(1, STDIN_FILENO)
    /\ \E x \in DOMAIN cproc[1].log : InFileOpenFailed(cproc[1].log[x])

\* The second tokenize call of SpecTok, both calls having succeeded
Retokenized == pc = "tokenize_again" /\ pc' = "done" /\ errbuf = "" /\ errbuf' = ""
\* The spaced line is w1, whitespace, >, whitespace, w2 with w1 ending in 2
TwoBeforeOut ==
    \E w1 \in Words, w2 \in Words, s1 \in Blanks, s2 \in Blanks :
        line = w1 \o s1 \o OP_OUT \o s2 \o w2 /\ w1[Len(w1)] = "2"

\* C12 as stated: for all words w1, w2 and every operator, the line without
\* whitespace and the line with whitespace around the operator tokenize to
\* the same token sequence.
C12_AdjacencyIrrelevant == [][Retokenized => tokens' = tokens]_vars

\* C12 amended: the two spellings tokenize to the same token sequence unless
\* the operator is > and w1 ends in the character 2 (then the line without
\* whitespace yields the operator 2> and w1 without its last character).
C12_AdjacencyIrrelevantExceptTwoOut == [][(Retokenized /\ ~TwoBeforeOut) => tokens' = tokens]_vars

\* C12 witness: a<a and a < a have both been tokenized, to a, <, a.
C12_Witness ==
    /\ pc = "done" /\ errbuf = ""
    /\ line = <<"a", " ", "<", " ", "a">>
    /\ tokens = <<<<"a">>, OP_IN, <<"a">>>>

\* ------------------------------------------------- parse_line's diagnostics
\* The line read character by character, without the tokenizer: the
\* positions of its non-blank characters.
NonBlankAt == {k \in 1 .. Len(line) : ~isspace(line[k])}
FirstNonBlank == CHOOSE k \in NonBlankAt : \A m \in NonBlankAt : k <= m
LastNonBlank == CHOOSE k \in NonBlankAt : \A m \in NonBlankAt : m <= k
FirstTokenIsPipe == NonBlankAt # {} /\ line[FirstNonBlank] = "|"
LastTokenIsPipe == NonBlankAt # {} /\ line[LastNonBlank] = "|"
Parsed == pc = "parsed"
\* parse_line failed, handing back no Pipeline, with this message; the
\* message of a call in which an allocation failed is "Out of memory."
FailsWith(msg) ==
    /\ parse_rc # 0
    /\ p = EmptyPipeline
    /\ errbuf = IF heap.failed THEN "Out of memory." ELSE msg

\* C13: for any non-blank line whose first token or whose last token is
\* "|", parse_line fails with the message "Command missing after pipe." and
\* produces no Pipeline (when an allocation of the call fails the failure is
\* reported as "Out of memory." instead).
C13_PipeAtEdge == Parsed /\ (FirstTokenIsPipe \/ LastTokenIsPipe) => FailsWith("Command missing after pipe.")
\* "a>|": the trailing pipe is reported, not the ">" that lacks its file
C13_Witness ==
    /\ Parsed /\ line = <<"a", ">", "|">> /\ ~heap.failed
    /\ parse_rc = 1 /\ errbuf = "Command missing after pipe." /\ p = EmptyPipeline

\* Two "|" with nothing but blanks between them.
AdjacentPipes ==
    \E k, m \in NonBlankAt :
        /\ k < m /\ line[k] = "|" /\ line[m] = "|"
        /\ \A x \in NonBlankAt : ~(k < x /\ x < m)

\* C14 as stated: for any line whose token sequence contains two adjacent
\* "|" tokens, parse_line fails with the message "Empty command between
\* pipes."
C14_AdjacentPipes == Parsed /\ AdjacentPipes => FailsWith("Empty command between pipes.")
\* C14, amended: for any line whose token sequence contains two adjacent "|"
\* tokens and whose first and last tokens are not "|", parse_line fails
\* with the message "Empty command between pipes."; when the first or the
\* last token is "|" the message is "Command missing after pipe." (and
\* "Out of memory." when an allocation of the call fails).
C14_AdjacentPipesInside ==
    Parsed /\ AdjacentPipes =>
        FailsWith(IF FirstTokenIsPipe \/ LastTokenIsPipe
                  THEN "Command missing after pipe."
                  ELSE "Empty command between pipes.")
C14_Witness ==
    /\ Parsed /\ line = <<"a", "|", " ", "|", "a">> /\ ~heap.failed
    /\ parse_rc = 1 /\ errbuf = "Empty command between pipes." /\ p = EmptyPipeline

\* The line's token sequence, and the shape of a segment read off it
\* without parse_line: token k lies in segment SegOf(k); a redirection
\* operator dangles when no non-operator token follows it in its segment;
\* a word is a token that is neither an operator nor a redirection's file.
Toks == tokenize(line, 0, 0).tokens
RedirOperators == Operators \ {OP_PIPE}
PassesPipeChecks == NonBlankAt # {} /\ ~FirstTokenIsPipe /\ ~LastTokenIsPipe /\ ~AdjacentPipes
SegOf(k) == Cardinality({m \in 1 .. (k - 1) : Toks[m] = OP_PIPE})
Dangling(k) == Toks[k] \in RedirOperators /\ (k = Len(Toks) \/ Toks[k + 1] \in Operators)
DanglingOps == {k \in 1 .. Len(Toks) : Dangling(k)}
FirstDangling == CHOOSE k \in DanglingOps : \A m \in DanglingOps : k <= m
IsWord(k) == Toks[k] \notin Operators /\ ~(k > 1 /\ Toks[k - 1] \in RedirOperators)
SegmentHasWord(s) == \E k \in 1 .. Len(Toks) : SegOf(k) = s /\ IsWord(k)
NoFileMessages(op) ==
    IF op = OP_IN THEN {"Input file not specified."}
    ELSE IF op = OP_ERR THEN {"Error output file not specified."}
    ELSE {"Output file not specified.", "Output file not specified after redirection."}

\* C15: for a line that passes the pipe placement checks, if a redirection
\* operator is not followed inside its segment by a non-operator token,
\* parse_line fails; when no earlier segment lacks a command word and no
\* allocation fails, the message is that of the first such operator:
\* "Input file not specified." for "<", "Error output file not specified."
\* for "2>", one of the two output-file messages for ">".
C15_MissingFile ==
    Parsed /\ PassesPipeChecks /\ DanglingOps # {} =>
        /\ parse_rc # 0
        /\ p = EmptyPipeline
        /\ (~heap.failed /\ \A s \in 0 .. (SegOf(FirstDangling) - 1) : SegmentHasWord(s))
              => errbuf \in NoFileMessages(Toks[FirstDangling])
C15_Witness ==
    /\ Parsed /\ line = <<"a", "|", "2", ">">> /\ ~heap.failed
    /\ parse_rc = 1 /\ errbuf = "Error output file not specified." /\ p = EmptyPipeline

\* The operator parse_line reports: the first dangling one, when no
\* allocation fails and every segment before it has a command word.
ReportsDangling(op) ==
    /\ Parsed /\ ~heap.failed /\ PassesPipeChecks /\ DanglingOps # {}
    /\ \A s \in 0 .. (SegOf(FirstDangling) - 1) : SegmentHasWord(s)
    /\ Toks[FirstDangling] = op
AFTER_REDIRECTION == "Output file not specified after redirection."
FinalTokenOfPipeline(k) == k = Len(Toks) /\ NumPipes(Toks) >= 1

\* C16: parse_line reports "Output file not specified after redirection."
\* only when a ">" is the final token of the final segment of a pipeline
\* with more than one command; in every other case of a ">" lacking a
\* filename it reports "Output file not specified."
C16_AfterRedirectionOnlyAtEnd ==
    /\ Parsed /\ errbuf = AFTER_REDIRECTION =>
          ReportsDangling(OP_OUT) /\ FinalTokenOfPipeline(FirstDangling)
    /\ ReportsDangling(OP_OUT) /\ ~FinalTokenOfPipeline(FirstDangling) =>
          errbuf = "Output file not specified."
\* What line 292 tests: the ">" lies in the final segment of a pipeline
\* with more than one command, whatever follows it there.
AfterRedirectionInFinalSegment ==
    /\ Parsed /\ errbuf = AFTER_REDIRECTION => ReportsDangling(OP_OUT)
    /\ ReportsDangling(OP_OUT) =>
          errbuf = IF NumPipes(Toks) >= 1 /\ SegOf(FirstDangling) = NumPipes(Toks)
                   THEN AFTER_REDIRECTION
                   ELSE "Output file not specified."

\* C17: for a line that passes the pipe placement checks and whose
\* redirections are all well-formed, if any segment contains no command
\* word, parse_line fails with "Command missing after pipe." ("Out of
\* memory." when an allocation of the call fails).
C17_SegmentWithoutCommand ==
    /\ Parsed /\ PassesPipeChecks /\ DanglingOps = {}
    /\ \E s \in 0 .. NumPipes(Toks) : ~SegmentHasWord(s)
    => FailsWith("Command missing after pipe.")
\* "a|<a": the second segment is a redirection and nothing else
C17_Witness ==
    /\ Parsed /\ line = <<"a", "|", "<", "a">> /\ ~heap.failed
    /\ parse_rc = 1 /\ errbuf = "Command missing after pipe." /\ p = EmptyPipeline

\* What a well-formed segment s says, read off the token sequence: its
\* command words in order, and for each operator the file that follows its
\* last occurrence (NULL when the operator does not occur).
WordPositions(s) == {k \in 1 .. Len(Toks) : SegOf(k) = s /\ IsWord(k)}
OpPositions(s, op) == {k \in 1 .. Len(Toks) : SegOf(k) = s /\ Toks[k] = op}
LastFile(s, op) ==
    IF OpPositions(s, op) = {} THEN NULL
    ELSE Toks[(CHOOSE k \in OpPositions(s, op) : \A m \in OpPositions(s, op) : m <= k) + 1]
ArgvIsWordsOf(argv, s) ==
    /\ Len(argv) = Cardinality(WordPositions(s))
    /\ \A k \in WordPositions(s) : argv[Cardinality({m \in WordPositions(s) : m <= k})] = Toks[k]
WellFormed ==
    /\ PassesPipeChecks /\ DanglingOps = {}
    /\ \A s \in 0 .. NumPipes(Toks) : SegmentHasWord(s)
RepeatedOperator == \E s \in 0 .. NumPipes(Toks), op \in RedirOperators : Cardinality(OpPositions(s, op)) >= 2

\* C18: when the same redirection operator appears several times in one
\* segment of an otherwise well-formed line, each time with a filename,
\* parse_line succeeds (no allocation failing) and each Command's in_file,
\* out_file and err_file hold the filename of the operator's last
\* occurrence in its segment, and argv holds the segment's command words
\* only: the earlier filenames are in no field and not in argv.
C18_LastRedirectionWins ==
    Parsed /\ ~heap.failed /\ WellFormed /\ RepeatedOperator =>
        /\ parse_rc = 0 /\ errbuf = ""
        /\ p.n_cmds = NumPipes(Toks) + 1
        /\ \A s \in 0 .. NumPipes(Toks) :
              /\ p.cmds[s].in_file = LastFile(s, OP_IN)
              /\ p.cmds[s].out_file = LastFile(s, OP_OUT)
              /\ p.cmds[s].err_file = LastFile(s, OP_ERR)
              /\ ArgvIsWordsOf(p.cmds[s].argv, s)
\* "c|c 2>a >b 2>b": err_file is b, and a is nowhere
C18_Witness ==
    /\ Parsed /\ parse_rc = 0
    /\ line = <<"c", "|", "c", " ", "2", ">", "a", " ", ">", "b", " ", "2", ">", "b">>
    /\ p.cmds[1] = [argv |-> <<<<"c">>>>, in_file |-> NULL, out_file |-> <<"b">>, err_file |-> <<"b">>]

\* C19: parse_line returns nonzero with an empty error message if and only
\* if the line contains no token (it is empty or made of the tokenizer's
\* whitespace only); every syntax error and every allocation failure
\* leaves a non-empty message.
C19_SilentIffBlank == Parsed => ((parse_rc # 0 /\ errbuf = "") <=> NonBlankAt = {})
\* a line of a space and a form feed, which main's own test does not call blank
C19_Witness ==
    /\ Parsed /\ line = <<" ", "\f">> /\ ~only_ws(line)
    /\ parse_rc = 1 /\ errbuf = "" /\ p = EmptyPipeline

\* ------------------------------------------------------- the Pipeline's heap
\* The allocator's record read as a history: block id is released exactly
\* once when one free(id) follows its allocation and no other free(id)
\* exists.
AllocAt(k) == heap.ev[k].op = "alloc"
FreeAt(k, id) == heap.ev[k].op = "free" /\ heap.ev[k].id = id
ReleasedExactlyOnce(k) ==
    /\ Cardinality({m \in 1 .. Len(heap.ev) : FreeAt(m, heap.ev[k].id)}) = 1
    /\ \E m \in (k + 1) .. Len(heap.ev) : FreeAt(m, heap.ev[k].id)
PipelineKinds == {"cmds array", "argv array", "argv string", "filename"}

\* C20: whenever parse_line returns nonzero (blank line, syntax error at
\* any segment, allocation failure at any point), the output Pipeline is
\* in the empty state (cmds == NULL, n_cmds == 0), no field still points
\* to a block, and every argv array, argv string, filename string and the
\* command array allocated during the call has been released exactly
\* once, nothing else having been released.
C20_FailureReleasesAll ==
    Parsed /\ parse_rc # 0 =>
        /\ p.cmds = NULL /\ p.n_cmds = 0
        /\ heap.ptr = {}
        /\ \A k \in 1 .. Len(heap.ev) :
              /\ AllocAt(k) => heap.ev[k].kind \in PipelineKinds /\ ReleasedExactlyOnce(k)
              /\ ~AllocAt(k) => \E m \in 1 .. (k - 1) : AllocAt(m) /\ heap.ev[m].id = heap.ev[k].id
\* "a<a|>": the second segment fails after the first one's file name,
\* argv array and argv string and the command array were allocated
C20_Witness ==
    /\ Parsed /\ line = <<"a", "<", "a", "|", ">">>
    /\ parse_rc = 1 /\ ~heap.failed
    /\ {heap.ev[k].kind : k \in {m \in 1 .. Len(heap.ev) : AllocAt(m)}} = PipelineKinds
    /\ Len(heap.ev) = 8

\* Every block of the call's history was released once, and nothing else was.
AllReleasedOnce ==
    \A k \in 1 .. Len(heap.ev) :
        /\ AllocAt(k) => ReleasedExactlyOnce(k)
        /\ ~AllocAt(k) => \E m \in 1 .. (k - 1) : AllocAt(m) /\ heap.ev[m].id = heap.ev[k].id
Released == p = EmptyPipeline /\ heap.ptr = {} /\ AllReleasedOnce

\* C21: free_pipeline is idempotent: after it was called on a Pipeline that
\* parse_line filled, or on one that a failed parse_line had already
\* released, and after it was called once more, the Pipeline is in the
\* empty state of pipeline_init (cmds == NULL, n_cmds == 0), no field
\* points to a block and every block was freed exactly once; the second
\* call changes neither the Pipeline nor the heap.
C21_FreeIdempotent ==
    /\ pc \in {"freed", "freed_again"} => Released
    /\ pc = "freed" \/ (pc = "parsed" /\ parse_rc # 0) =>
          free_pipeline(p) = p /\ FreePipelineHeap(p, heap) = heap
\* "a>a|a" parsed with success, then released twice
C21_Witness ==
    /\ pc = "freed_again" /\ parse_rc = 0 /\ line = <<"a", ">", "a", "|", "a">>
    /\ Len(heap.ev) = 12 /\ Released

\* C22: for any line with more than one command whose final token is ">"
\* (the authors' example is "< input.txt | command1 >"), parse_line fails
\* with the message "Output file not specified after redirection."
C22_FinalOutAfterPipe ==
    Parsed /\ NonBlankAt # {} /\ NumPipes(Toks) >= 1 /\ Toks[Len(Toks)] = OP_OUT
        => FailsWith(AFTER_REDIRECTION)
\* The authors' example in small: "<a|a>" is refused for its first segment
AuthorsExample ==
    /\ Parsed /\ line = <<"<", "a", "|", "a", ">">> /\ ~heap.failed
    /\ parse_rc = 1 /\ errbuf = "Command missing after pipe."

\* C23: if a line violates a pipe placement rule, the message is the one of
\* the first rule it violates, in the order first token, last token,
\* adjacent pipes, whatever redirection or empty-command error the line
\* holds elsewhere, even earlier; the rules are applied before
\* segmentation, so no block of the Pipeline was ever allocated.
C23_PipeRulesFirst ==
    Parsed /\ (FirstTokenIsPipe \/ LastTokenIsPipe \/ AdjacentPipes) =>
        /\ parse_rc # 0
        /\ heap.ev = <<>>
        /\ ~heap.failed =>
              errbuf = IF FirstTokenIsPipe THEN "Command missing after pipe."
                       ELSE IF LastTokenIsPipe THEN "Command missing after pipe."
                       ELSE "Empty command between pipes."
\* "a>||a": the ">" without a file comes first in the line, the adjacent
\* pipes are what is reported
C23_Witness ==
    /\ Parsed /\ line = <<"a", ">", "|", "|", "a">> /\ ~heap.failed
    /\ DanglingOps # {} /\ FirstDangling = 2
    /\ parse_rc = 1 /\ errbuf = "Empty command between pipes." /\ heap.ev = <<>>

\* argv[0 .. Len(argv)-1] point to strings and argv[Len(argv)] is NULL
NullTerminated(s) ==
    /\ \A k \in 0 .. (Len(p.cmds[s].argv) - 1) : Ptr(heap, Slot(s, "argv", k)) # 0
    /\ Ptr(heap, Slot(s, "argv", Len(p.cmds[s].argv))) = 0
    /\ Ptr(heap, Slot(s, "argv", -1)) # 0

\* C24: on a successful parse each Command's argv is exactly its segment's
\* tokens with every redirection operator and the file name after it
\* removed, in the original order, and is NULL-terminated; a word after a
\* redirection's file name, or a command name after a leading
\* redirection, is kept.
C24_ArgvIsSegmentWords ==
    Parsed /\ parse_rc = 0 =>
        /\ p.n_cmds = NumPipes(Toks) + 1
        /\ \A s \in 0 .. NumPipes(Toks) : ArgvIsWordsOf(p.cmds[s].argv, s) /\ NullTerminated(s)
\* "2<a a": the word after the redirection's file name is the second argument
C24_Witness ==
    /\ Parsed /\ parse_rc = 0 /\ line = <<"2", "<", "a", " ", "a">>
    /\ p.cmds[0].argv = <<<<"2">>, <<"a">>>>
    /\ p.cmds[0].in_file = <<"a">>

\* --------------------------------------------------- the children's tables
DupFailed(c) == \E k \in DOMAIN cproc[c].log : cproc[c].log[k].op = "dup2" /\ ~cproc[c].log[k].ok
Wired(c) == cpc[c] = "redir"

\* C25: after connect_pipes_for_child in child i of an n-command pipeline
\* (n >= 2, every dup2 succeeding) stdin is the read end of pipe i-1 when
\* i > 0 and the inherited stdin otherwise, stdout is the write end of
\* pipe i when i < n-1 and the inherited stdout otherwise, and every
\* descriptor above 2 is closed; at exec the child holds pipe ends through
\* descriptors 0 and 1 only.
C25_ChildWiring ==
    \A c \in Children :
        n_cmds >= 2 /\ ~DupFailed(c) =>
            /\ Wired(c) =>
                  /\ cproc[c].fd[STDIN_FILENO] = (IF c > 0 THEN PipeEnd(c - 1, "r") ELSE Inherited(STDIN_FILENO))
                  /\ cproc[c].fd[STDOUT_FILENO] = (IF c < n_cmds - 1 THEN PipeEnd(c, "w") ELSE Inherited(STDOUT_FILENO))
                  /\ cproc[c].fd[STDERR_FILENO] = Inherited(STDERR_FILENO)
                  /\ \A f \in Fds : f > STDERR_FILENO => cproc[c].fd[f] = Closed
            /\ AtExec(c) =>
                  \A f \in Fds : cproc[c].fd[f].kind = "pipe" => f \in {STDIN_FILENO, STDOUT_FILENO}
\* the middle child of three, wired to both its neighbours
C25_Witness ==
    /\ n_cmds = 3 /\ Wired(1) /\ ~DupFailed(1)
    /\ cproc[1].fd[STDIN_FILENO] = PipeEnd(0, "r") /\ cproc[1].fd[STDOUT_FILENO] = PipeEnd(1, "w")
    /\ ~HoldsRawPipeEnd(cproc[1].fd)

\* The files of a command in the order apply_redirections takes them, and
\* the open calls of a child as its log shows them.
RedirFile(nm, mode) == IF nm = NULL THEN <<>> ELSE <<[name |-> nm, mode |-> mode]>>
RedirFiles(c) == RedirFile(Cmd(c).in_file, "r") \o RedirFile(Cmd(c).out_file, "w") \o RedirFile(Cmd(c).err_file, "w")
IsOpenEv(e) == e.op = "open"
Opens(c) == SelectSeq(cproc[c].log, IsOpenEv)
\* a failed open, or a failed dup2 of the descriptor just opened
RedirFailedAt(c, k) ==
    LET L == cproc[c].log
    IN ~L[k].ok /\ (L[k].op = "open" \/ (L[k].op = "dup2" /\ k > 1 /\ L[k - 1].op = "open"))

\* C26: apply_redirections takes input, then output, then error, and stops
\* at the first failure: the files a child opens are, in order, an initial
\* part of in_file, out_file, err_file; after a failed open or dup2 of a
\* redirection no further file is opened (so a later file is neither
\* created nor truncated), the child exits with status 1 and never calls
\* execvp.
C26_RedirectionsStopAtFailure ==
    \A c \in Children :
        Forked(c) =>
            /\ Len(Opens(c)) <= Len(RedirFiles(c))
            /\ \A k \in DOMAIN Opens(c) :
                  Opens(c)[k].name = RedirFiles(c)[k].name /\ Opens(c)[k].msg = RedirFiles(c)[k].mode
            /\ \A k \in DOMAIN cproc[c].log :
                  RedirFailedAt(c, k) =>
                      /\ \A m \in DOMAIN cproc[c].log : m > k => ~IsOpenEv(cproc[c].log[m])
                      /\ \A m \in DOMAIN cproc[c].log : ~ExecEv(cproc[c].log[m])
                      /\ cpc[c] \in {"zombie", "reaped"}
                      /\ cstatus[c] = W_EXITCODE(REDIR_FAIL_STATUS, 0)
\* a command with an input and an output file whose input file cannot be
\* opened: the output file was not touched
C26_Witness ==
    \E c \in Children :
        /\ Forked(c) /\ Cmd(c).in_file # NULL /\ Cmd(c).out_file # NULL
        /\ Len(Opens(c)) = 1 /\ ~Opens(c)[1].ok /\ Opens(c)[1].msg = "r"
        /\ cpc[c] = "zombie" /\ WEXITSTATUS(cstatus[c]) = 1

\* ----------------------------------------------------- the parent's phases
ClosesPipeEnd(e) == e.op = "close" /\ e.d.kind = "pipe"
JustForked(c) == cpc[c] = "wire"

\* C27: no fork happens after the parent has closed a pipe end or issued a
\* wait; every child, when it is forked, has all 2(n-1) pipe ends open at
\* the parent's descriptor numbers; and the parent waits only once the
\* forking phase has ended, by n successful forks or by a failed one.
C27_ForksBeforeClosesAndWaits ==
    /\ \A x, y \in DOMAIN ParLog :
          IsFork(ParLog[y]) /\ (ClosesPipeEnd(ParLog[x]) \/ IsWaitpid(ParLog[x])) => y < x
    /\ \A c \in Children :
          JustForked(c) =>
              \A k \in 0 .. (n_pipes - 1) :
                  /\ cproc[c].fd[pipe_fds[k][0]] = PipeEnd(k, "r")
                  /\ cproc[c].fd[pipe_fds[k][1]] = PipeEnd(k, "w")
    /\ WaitSeq # <<>> => Len(ForkSeq) = n_cmds \/ ForkFailed
\* the last child of three, just forked, holds the four ends of both pipes
\* although the first child has already exited
C27_Witness ==
    /\ n_cmds = 3 /\ JustForked(2) /\ cpc[0] = "zombie"
    /\ Cardinality({f \in Fds : cproc[2].fd[f].kind = "pipe"}) = 4

\* The phase of the parent, from its position in execute_pipeline.  The
\* last waitpid, free(pids) and the return are one step, so AllReaped is
\* entered together with Done.
PhaseOrder == <<"Idle", "PipesCreated", "ChildrenForked", "PipesClosedInParent", "Done">>
Phase ==
    IF pc \in {"entry", "malloc_pipe_fds", "create_pipes"} THEN "Idle"
    ELSE IF pc \in {"malloc_pids", "fork"} THEN "PipesCreated"
    ELSE IF pc = "close_pipes" THEN "ChildrenForked"
    ELSE IF pc = "wait" THEN "PipesClosedInParent"
    ELSE IF pc = "returned" /\ ret # -1 THEN "Done"
    ELSE "Failed"
Follows(a, b) == \E k \in 1 .. (Len(PhaseOrder) - 1) : PhaseOrder[k] = a /\ PhaseOrder[k + 1] = b
\* What is true of the processes in each phase
PhaseFacts ==
    /\ Phase = "Idle" => ForkSeq = <<>> /\ WaitSeq = <<>>
    /\ Phase = "PipesCreated" =>
          PipesCreated = n_pipes /\ ~PipeFailed /\ WaitSeq = <<>> /\ ~HoldsPipeEnd(par.fd) = (n_pipes = 0)
    /\ Phase = "ChildrenForked" =>
          Len(ForkSeq) = n_cmds /\ ~ParentCallFailed /\ WaitSeq = <<>> /\ ~HoldsPipeEnd(par.fd) = (n_pipes = 0)
    /\ Phase = "PipesClosedInParent" =>
          Len(ForkSeq) = n_cmds /\ ~ParentCallFailed /\ ~HoldsPipeEnd(par.fd) /\ Len(WaitSeq) < n_cmds
    /\ Phase = "Done" =>
          Len(ForkSeq) = n_cmds /\ ~ParentCallFailed /\ ~HoldsPipeEnd(par.fd)
          /\ Len(WaitSeq) = n_cmds /\ AllReaped(n_cmds)
    /\ Phase = "Failed" => ParentCallFailed /\ Len(SelectSeq(ForkSeq, IsOk)) < n_cmds
PhaseStep ==
    \/ Phase' = Phase
    \/ Follows(Phase, Phase')
    \/ Phase \in {"Idle", "PipesCreated"} /\ Phase' = "Failed"

\* C28: the parent moves through Idle, PipesCreated, ChildrenForked,
\* PipesClosedInParent, AllReaped/Done in that order, one phase at a time
\* and never back; Failed is entered only from Idle or PipesCreated, after
\* a failed allocation, pipe creation or fork, so once all n children are
\* forked the call no longer fails; each phase has the processes in the
\* condition its name states.
C28_PhaseOrder == []PhaseFacts /\ [][PhaseStep]_vars
C28_Witness ==
    /\ Phase = "Done" /\ n_cmds = 3 /\ Len(WaitSeq) = 3 /\ ret = SIGNALLED_RESULT
    /\ ~WIFEXITED(cstatus[2])
\* a fork that failed after the first child was made
FailedPhaseReached == Phase = "Failed" /\ ForkFailed /\ Len(ForkSeq) = 2 /\ pc = "returned"

\* The parent has closed its pipe ends and no child is still before or in
\* its wiring.
ParentClosedAllWired ==
    /\ n_cmds >= 2 /\ pc \in {"wait", "returned"} /\ Len(ForkSeq) = n_cmds /\ ~ForkFailed
    /\ \A c \in 0 .. (n_cmds - 1) : cpc[c] \notin {"unborn", "wire"}
ChildHolds(c, f, k, e) == cproc[c].fd[f] = PipeEnd(k, e)

\* C29: once the parent has closed its pipe ends and every child has done
\* its wiring, the write end of pipe k is open in no process but child k,
\* there as descriptor 1 only, and the read end of pipe k in no process
\* but child k+1, there as descriptor 0 only; so when child k has exited
\* nobody holds the write end of pipe k any more.
C29_OneHolderPerEnd ==
    ParentClosedAllWired =>
        /\ ~HoldsPipeEnd(par.fd)
        /\ \A c \in Children, f \in Fds, k \in 0 .. (n_pipes - 1) :
              /\ ChildHolds(c, f, k, "w") => c = k /\ f = STDOUT_FILENO
              /\ ChildHolds(c, f, k, "r") => c = k + 1 /\ f = STDIN_FILENO
        /\ \A k \in 0 .. (n_pipes - 1) :
              cpc[k] \in {"zombie", "reaped"} => \A c \in Children, f \in Fds : ~ChildHolds(c, f, k, "w")
\* three running commands: the middle one reads pipe 0 and writes pipe 1
C29_Witness ==
    /\ ParentClosedAllWired /\ n_cmds = 3 /\ \A c \in 0 .. 2 : cpc[c] = "running"
    /\ ChildHolds(0, STDOUT_FILENO, 0, "w") /\ ChildHolds(1, STDIN_FILENO, 0, "r")
    /\ ChildHolds(1, STDOUT_FILENO, 1, "w") /\ ChildHolds(2, STDIN_FILENO, 1, "r")

\* Reading a call log for closes and duplications of pipe ends.
IsClose(e) == e.op = "close"
IsDup2(e) == e.op = "dup2"
ClosesEnd(e, k, end) == IsClose(e) /\ e.ok /\ e.d = PipeEnd(k, end)
ClosesOf(log, k, end) == {x \in DOMAIN log : ClosesEnd(log[x], k, end)}
PipeCloses(log) == {x \in DOMAIN log : IsClose(log[x]) /\ log[x].d.kind = "pipe"}
FailedCloses(log) == {x \in DOMAIN log : IsClose(log[x]) /\ ~log[x].ok}
\* pipes the parent has created so far: the successful pipe() calls
CreatedPipes == {ParLog[x].d.id : x \in {y \in DOMAIN ParLog : IsPipeCall(ParLog[y]) /\ ParLog[y].ok}}
CreatedAt(k) == CHOOSE x \in DOMAIN ParLog : IsPipeCall(ParLog[x]) /\ ParLog[x].ok /\ ParLog[x].d.id = k
PipeEnds == {"r", "w"}
\* the dup2 calls of connect_pipes_for_child: those before any open()
WiringDup2s(log) == {x \in DOMAIN log : IsDup2(log[x]) /\ \A y \in 1 .. (x - 1) : log[y].op # "open"}
ExpectedDup2s(c) == (IF c > 0 THEN 1 ELSE 0) + (IF c < n_cmds - 1 THEN 1 ELSE 0)
ParentClosesOnce ==
    /\ FailedCloses(ParLog) = {}
    /\ \A x \in DOMAIN ParLog : ~IsDup2(ParLog[x])
    /\ \A k \in CreatedPipes, end \in PipeEnds :
          /\ Cardinality(ClosesOf(ParLog, k, end)) <= 1
          /\ \A x \in ClosesOf(ParLog, k, end) : CreatedAt(k) < x
          /\ pc = "returned" => Cardinality(ClosesOf(ParLog, k, end)) = 1
ChildClosesOnce(c) ==
    /\ FailedCloses(cproc[c].log) = {}
    /\ \A k \in 0 .. (n_pipes - 1), end \in PipeEnds :
          /\ Cardinality(ClosesOf(cproc[c].log, k, end)) <= 1
          /\ cpc[c] \notin {"unborn", "wire"} => Cardinality(ClosesOf(cproc[c].log, k, end)) = 1
    /\ cpc[c] \notin {"unborn", "wire"} =>
          /\ Cardinality(WiringDup2s(cproc[c].log)) = ExpectedDup2s(c)
          /\ \A x \in PipeCloses(cproc[c].log), y \in WiringDup2s(cproc[c].log) : y < x
    /\ \A x \in DOMAIN cproc[c].log :
          IsDup2(cproc[c].log[x]) /\ cproc[c].log[x].d.kind = "pipe" => x \in WiringDup2s(cproc[c].log)

\* C30: on every path through execute_pipeline the parent closes each pipe
\* end it created exactly once by the time it returns, never closes a
\* descriptor that is not open and never duplicates one; each child closes
\* each raw pipe end exactly once during its wiring, after all the dup2
\* calls of the wiring, and no later call of the child closes or
\* duplicates a pipe end again.
C30_EndsClosedExactlyOnce ==
    /\ ParentClosesOnce
    /\ \A c \in 0 .. (n_cmds - 1) : ChildClosesOnce(c)
\* a fork failure at the last of three commands: the parent has returned
\* with both pipes closed, the two children forked before have wired
C30_Witness ==
    /\ pc = "returned" /\ n_cmds = 3 /\ ForkFailed /\ Len(ForkSeq) = 3
    /\ CreatedPipes = {0, 1}
    /\ \A k \in CreatedPipes, end \in PipeEnds : Cardinality(ClosesOf(ParLog, k, end)) = 1
    /\ \A c \in 0 .. 1 : cpc[c] = "reaped" /\ Cardinality(PipeCloses(cproc[c].log)) = 4
    /\ Cardinality(WiringDup2s(cproc[1].log)) = 2
\* the other failure paths with pipes to close
PidArrayFailureClosed ==
    /\ pc = "returned" /\ CreatedPipes = {0, 1} /\ Len(ForkSeq) = 0
    /\ \E x \in DOMAIN ParLog : ParLog[x].op = "malloc" /\ ParLog[x].msg = "pids" /\ ~ParLog[x].ok
    /\ Cardinality(PipeCloses(ParLog)) = 4
PipeFailureClosed ==
    /\ pc = "returned" /\ PipeFailed /\ CreatedPipes = {0} /\ Cardinality(PipeCloses(ParLog)) = 2

\* ------------------------------------------- bindings under interleaving
\* What descriptors 0, 1 and 2 of child c refer to at exec, as a function of
\* its index, the number of commands and its Command's three file fields.
ExpectedStdin(c, n, cmd) ==
    IF cmd.in_file # NULL THEN File(cmd.in_file, "r")
    ELSE IF c > 0 THEN PipeEnd(c - 1, "r") ELSE Inherited(STDIN_FILENO)
ExpectedStdout(c, n, cmd) ==
    IF cmd.out_file # NULL THEN File(cmd.out_file, "w")
    ELSE IF c < n - 1 THEN PipeEnd(c, "w") ELSE Inherited(STDOUT_FILENO)
ExpectedStderr(c, n, cmd) ==
    IF cmd.err_file # NULL THEN File(cmd.err_file, "w") ELSE Inherited(STDERR_FILENO)
BoundAsExpected(c) ==
    /\ cproc[c].fd[STDIN_FILENO] = ExpectedStdin(c, n_cmds, Cmd(c))
    /\ cproc[c].fd[STDOUT_FILENO] = ExpectedStdout(c, n_cmds, Cmd(c))
    /\ cproc[c].fd[STDERR_FILENO] = ExpectedStderr(c, n_cmds, Cmd(c))
BindingsAtExec ==
    \A c \in Children :
        AtExec(c) =>
            /\ faults = 0 => ~DupFailed(c)
            /\ ~DupFailed(c) => BoundAsExpected(c)
\* a child does its wiring when the parent holds no pipe end any more
LateWiring(c) == cpc[c] = "wire" /\ cpc'[c] # "wire" /\ n_pipes > 0 /\ ~HoldsPipeEnd(par.fd)
LateWiringBinds ==
    \A c \in Children :
        LateWiring(c) /\ faults' = faults =>
            /\ cproc'[c].fd[STDIN_FILENO] = (IF c > 0 THEN PipeEnd(c - 1, "r") ELSE Inherited(STDIN_FILENO))
            /\ cproc'[c].fd[STDOUT_FILENO] = (IF c < n_cmds - 1 THEN PipeEnd(c, "w") ELSE Inherited(STDOUT_FILENO))

\* C31: in every interleaving of the parent's and the children's steps a
\* child that reaches exec (no dup2 having failed in it) has descriptors
\* 0, 1 and 2 bound to what its index, the number of commands and its
\* Command's file fields determine, and with no failure injected no dup2
\* fails at all; a child that does its wiring after the parent has closed
\* its pipe ends gets the same pipe bindings.
C31_BindingsIndependentOfSchedule == []BindingsAtExec /\ [][LateWiringBinds]_vars
\* the parent has closed its ends while the first of three children has
\* not wired yet; the middle child is at exec on both pipes
C31_Witness ==
    /\ n_cmds = 3 /\ pc = "wait" /\ ~HoldsPipeEnd(par.fd) /\ faults = 0
    /\ cpc[0] = "wire" /\ cpc[1] = "exec"
    /\ Cmd(1).in_file = NULL /\ Cmd(1).out_file = NULL /\ BoundAsExpected(1)
    /\ cproc[1].fd[STDIN_FILENO] = PipeEnd(0, "r") /\ cproc[1].fd[STDOUT_FILENO] = PipeEnd(1, "w")
\* a command with an input file inside a pipeline: the file wins over the pipe
RedirectedInPipeAtExec ==
    \E c \in Children : c > 0 /\ AtExec(c) /\ Cmd(c).in_file # NULL /\ BoundAsExpected(c) /\ pc = "wait"
\* not a property of the program: TLC refutes it, so runs in which a child
\* wires after the parent's close exist
NoLateWiring == [][\A c \in Children : ~LateWiring(c)]_vars

\* --------------------------------------------- the shape of a parsed line
\* the argv arrays build_argv handed out during this parse
ArgvArrays == {x \in DOMAIN heap.ev : heap.ev[x].op = "alloc" /\ heap.ev[x].kind = "argv array"}
\* every pointer stored in the Pipeline lies in one of its n_cmds Commands
StoresInBounds == \A e \in heap.ptr : e.slot = CmdsSlot \/ e.slot.c \in 0 .. (p.n_cmds - 1)
FilesOf(c) == {c.in_file, c.out_file, c.err_file} \ {NULL}
ArgvElements(c) == {c.argv[k] : k \in DOMAIN c.argv}

\* C32: whenever parse_line returns 0, n_cmds >= 1, the Pipeline has
\* exactly n_cmds Commands and exactly n_cmds segments were processed (one
\* argv array per Command, no pointer stored beyond Command n_cmds-1),
\* every Command's argv has at least one element, and no argv element and
\* no in_file, out_file or err_file is one of the operators <, >, 2>, |.
C32_ParsedPipelineShape ==
    Parsed /\ parse_rc = 0 =>
        /\ p.n_cmds >= 1
        /\ DOMAIN p.cmds = 0 .. (p.n_cmds - 1)
        /\ Cardinality(ArgvArrays) = p.n_cmds
        /\ StoresInBounds
        /\ \A s \in 0 .. (p.n_cmds - 1) :
              /\ p.cmds[s].argv # NULL /\ Len(p.cmds[s].argv) >= 1
              /\ Ptr(heap, Slot(s, "argv", -1)) # 0 /\ Ptr(heap, Slot(s, "argv", 0)) # 0
              /\ ArgvElements(p.cmds[s]) \cap Operators = {}
              /\ FilesOf(p.cmds[s]) \cap Operators = {}
              /\ \A w \in ArgvElements(p.cmds[s]) \cup FilesOf(p.cmds[s]) : w # <<>>
\* "a|a<2": two Commands, the second with an input file
C32_Witness ==
    /\ Parsed /\ parse_rc = 0 /\ line = <<"a", "|", "a", "<", "2">>
    /\ p.n_cmds = 2 /\ Cardinality(ArgvArrays) = 2
    /\ p.cmds[0].argv = <<<<"a">>>> /\ p.cmds[1].argv = <<<<"a">>>> /\ p.cmds[1].in_file = <<"2">>

\* ------------------------------------------------------ tokens of a line
WhitespaceChars == {" ", "\t", "\n", VT, "\f", "\r"}
OperatorChars == {"<", ">", "|"}
NotWhitespace(ch) == ch \notin WhitespaceChars
\* the line with its whitespace characters removed
Strip(str) == SelectSeq(str, NotWhitespace)
RECURSIVE Concat(_)
Concat(toks) == IF toks = <<>> THEN <<>> ELSE Head(toks) \o Concat(Tail(toks))
PlainWord(t) == \A k \in DOMAIN t : t[k] \notin WhitespaceChars \cup OperatorChars
ScanEnded == pc \in {"scanned", "oom"}
TokensOfScannedPart ==
    pc \in {"scan", "scanned"} =>
        /\ \A k \in DOMAIN tokens :
              /\ tokens[k] # <<>>
              /\ tokens[k] \in Operators \/ PlainWord(tokens[k])
        /\ i <= Len(line)
        /\ Concat(tokens) = Strip(SubSeq(line, 1, i))
        /\ pc = "scanned" => i = Len(line) /\ tokens = tokenize(line, 0, 0).tokens /\ errbuf = ""
\* every iteration that stays in the loop moves p forward
ScanAdvances == pc = "scan" /\ pc' = "scan" => i' > i

\* C33: for every input line the tokenizer terminates (each iteration of
\* its loop moves forward in the line, and the loop is left); every token
\* it produces is non-empty and is either exactly one of <, >, 2>, | or a
\* word with no whitespace character and none of <, >, |; and the tokens
\* concatenated in order are the part of the line scanned so far, at the
\* end the whole line, with all whitespace characters removed.
C33_TokenizerTotalAndFaithful == []TokensOfScannedPart /\ [][ScanAdvances]_vars /\ <>ScanEnded
\* "a2> |": a word cut short by 2>, the operator 2>, whitespace, a pipe
C33_Witness ==
    /\ pc = "scanned" /\ line = <<"a", "2", ">", " ", "|">>
    /\ tokens = <<<<"a">>, OP_ERR, OP_PIPE>>
    /\ Concat(tokens) = <<"a", "2", ">", "|">>
\* an allocation of push_token fails on the second token
ScanOomReached == pc = "oom" /\ tokens = <<>> /\ errbuf = "Out of memory." /\ i > 0

\* ------------------------------------------- where the diagnostics land
IsStderrEv(e) == e.op = "stderr"
ExecFailureMessages == {"Command not found.", "Command not found in pipe sequence."}
FILE_NOT_FOUND == "File not found."
\* the child has opened (created or truncated) the file nm before call x
OpenedBefore(c, nm, x) ==
    \E y \in 1 .. (x - 1) : IsOpenEv(cproc[c].log[y]) /\ cproc[c].log[y].ok /\ cproc[c].log[y].name = nm
EverOpens(c, nm) == \E y \in DOMAIN cproc[c].log : IsOpenEv(cproc[c].log[y]) /\ cproc[c].log[y].name = nm
ExecFailureLands(c, x) ==
    LET e == cproc[c].log[x]
    IN /\ x > 1 /\ ExecEv(cproc[c].log[x - 1]) /\ ~cproc[c].log[x - 1].ok
       /\ IF Cmd(c).err_file # NULL
          THEN e.d = File(Cmd(c).err_file, "w") /\ OpenedBefore(c, Cmd(c).err_file, x)
          ELSE e.d = Inherited(STDERR_FILENO)
FileNotFoundLands(c, x) ==
    LET e == cproc[c].log[x]
    IN /\ Cmd(c).in_file # NULL
       /\ e.d = Inherited(STDERR_FILENO)
       /\ Cmd(c).err_file # NULL => ~EverOpens(c, Cmd(c).err_file)
       /\ Cmd(c).out_file # NULL => ~EverOpens(c, Cmd(c).out_file)

\* C34: a child's diagnostic goes to what its descriptor 2 is when it is
\* written.  The exec-failure message follows the failed execvp, after the
\* redirections: for a command with 2> f it lands in f, which the child
\* has opened before, and not on the inherited error stream.  "File not
\* found." for a failed < is written before 2> is applied: it lands on the
\* inherited error stream, and the child never opens f (nor the > file).
C34_DiagnosticsFollowStderr ==
    \A c \in Children : \A x \in DOMAIN cproc[c].log :
        IsStderrEv(cproc[c].log[x]) =>
            /\ cproc[c].log[x].msg \in ExecFailureMessages => ExecFailureLands(c, x)
            /\ cproc[c].log[x].msg = FILE_NOT_FOUND => FileNotFoundLands(c, x)
\* "a 2> e" with a not found: the message is in e
C34_Witness ==
    /\ n_cmds = 1 /\ Cmd(0).err_file = Word("e") /\ cpc[0] = "zombie"
    /\ \E x \in DOMAIN cproc[0].log :
          /\ IsStderrEv(cproc[0].log[x]) /\ cproc[0].log[x].msg = "Command not found."
          /\ cproc[0].log[x].d = File(Word("e"), "w")
    /\ cstatus[0] = W_EXITCODE(NOT_FOUND_STATUS, 0)
\* "a < i 2> e" with i missing: the message is on the inherited stream, e untouched
FileNotFoundOnInherited ==
    \E c \in Children :
        /\ Forked(c) /\ Cmd(c).in_file # NULL /\ Cmd(c).err_file # NULL /\ cpc[c] = "zombie"
        /\ \E x \in DOMAIN cproc[c].log :
              /\ IsStderrEv(cproc[c].log[x]) /\ cproc[c].log[x].msg = FILE_NOT_FOUND
              /\ cproc[c].log[x].d = Inherited(STDERR_FILENO)
        /\ ~EverOpens(c, Cmd(c).err_file)

\* ---------------------------------------- the status when waitpid succeeds
\* What C10 and C11 say about the returned value holds in the runs where
\* waitpid writes the status it is asked for.
StatusReportedWhenWaitpidSucceeds ==
    WaitpidOk => C10_NotFound /\ C11_InputFileNotFound
\* "a" with SIGCHLD ignored: the program exited 255, the call returned 0
GarbageStatusReturned ==
    /\ pc = "returned" /\ n_cmds = 1 /\ sigchld_ignored /\ ~ParentCallFailed
    /\ cstatus[0] = W_EXITCODE(255, 0) /\ ret = 0

====
